---- MODULE Spec2Model ----
(***************************************************************************)
(* The CivicPulse agent runtime: the Coordinator's process_incident         *)
(* pipeline (Planner -> Dispatcher -> Analyst) over the key-value store,    *)
(* the agent_logs table, the pub/sub bus, the fulfilment backend and the    *)
(* reasoning provider.                                                      *)
(*                                                                         *)
(* Every await of the source is one step of a run, so concurrent runs       *)
(* interleave exactly where the asyncio event loop can switch tasks.        *)
(* Synchronous code between two awaits belongs to the step of the await     *)
(* before it.  The attempts of one call_llm_with_retry touch no shared      *)
(* state and are taken in one step.                                         *)
(***************************************************************************)
EXTENDS Integers, Sequences, FiniteSets, TLC

\* ------------------------------------------------------------------ bounds
MaxFaults == 1         \* store / backend operations that fail in one behaviour
MaxExpiries == 1       \* memory keys whose TTL runs out in one behaviour
MaxWorkOrders == 2     \* work orders in one DispatchResult
MaxRetriesArg == 4     \* largest max_retries argument given to call_llm_with_retry

\* ------------------------------------------------------- program constants
agent_max_retries == 3
max_length == 100

None == "none"
NoRun == 0             \* an artifact nobody has produced: Python's None

\* The first and the second invocation of process_incident.
Calls == {1, 2}

\* Incident ids a caller may pass; the incidents table starts with
\* StoredIncidents, and a row can be removed later.
IncidentIds == {"i1", "i2"}
StoredIncidents == {"i1", "i2"}

AgentTypes == {"PLANNER", "DISPATCHER", "ANALYST"}
MemoryKeys == {"action_plan", "dispatch_result", "explanation"}

\* ---------------------------------------------------------------- redis keys
\* A key that leaves the incident out.
get_agent_memory_key_shared(agent_type, incident_id) == <<"agent", agent_type, "i1">>

\* f"agent:{agent_type.lower()}:{incident_id}"
get_agent_memory_key(agent_type, incident_id) == <<"agent", agent_type, incident_id>>

\* f"conversation:{incident_id}"
get_conversation_key(incident_id) == <<"conversation", incident_id>>

\* f"{memory_key}:{key}"
full_key(agent_type, incident_id, key) ==
    Append(get_agent_memory_key(agent_type, incident_id), key)

AllFullKeys ==
    {full_key(a, i, k) : a \in AgentTypes, i \in IncidentIds, k \in MemoryKeys}

\* ------------------------------------------------------- reasoning provider
\* What one provider attempt can do: time out (asyncio.TimeoutError), fail in
\* transport, return a response without a usable generation (IndexError on
\* response.generations[0][0]), or return a text.
\* A text is described by whether the JSON is wrapped in a ```json fence, a
\* bare ``` fence or none, whether the fence is closed, and what the text
\* between the fences is.
Fences == {"json", "bare", "nofence"}
Bodies == {"valid_object", "invalid_object", "not_json"}
Texts == [kind : {"text"}, fence : Fences, closed : BOOLEAN, body : Bodies]
\* Objects with every required field, told apart by their "confidence": 0.0,
\* 1.0, a value below 0.0 and a value above 1.0.
ConfidenceBodies ==
    {"confidence_0", "confidence_1", "confidence_below_0", "confidence_above_1"}
\* The "confidence" of a decoded object, in hundredths.
confidence(data) ==
    CASE data = "confidence_0" -> 0
      [] data = "confidence_1" -> 100
      [] data = "confidence_below_0" -> -1
      [] data = "confidence_above_1" -> 101
      [] OTHER -> 50
FailureKinds == {"timeout", "transport", "no_generation"}
AttemptFailures ==
    {[kind |-> k, fence |-> None, closed |-> FALSE, body |-> None] : k \in FailureKinds}
AttemptOutcomes == AttemptFailures \cup Texts
NoText == [kind |-> None, fence |-> None, closed |-> FALSE, body |-> None]

\* An exception: its kind and its text.
Err(kind, text) == [kind |-> kind, text |-> text]
NoError == Err(None, None)

\* str(e) / the timeout message of a failed attempt.
error_text(o) ==
    IF o.kind = "timeout" THEN "LLM call timed out after 30s" ELSE o.kind

\* 2**attempt
RECURSIVE Pow2(_)
Pow2(n) == IF n = 0 THEN 1 ELSE 2 * Pow2(n - 1)

\* The for loop of call_llm_with_retry from iteration `attempt` on.
RECURSIVE retry_loop(_, _, _, _, _)
retry_loop(outcomes, n, attempt, last_error, sleeps) ==
    IF attempt >= n
    THEN [ok |-> FALSE, attempts |-> attempt, result |-> NoText,
          error |-> Err("ProviderUnavailable", last_error),
          sleeps |-> sleeps]
    ELSE LET o == outcomes[attempt + 1] IN
         IF o.kind = "text"
         THEN [ok |-> TRUE, attempts |-> attempt + 1, result |-> o,
               error |-> NoError, sleeps |-> sleeps]
         ELSE retry_loop(outcomes, n, attempt + 1, error_text(o),
                         IF attempt < n - 1
                         THEN Append(sleeps, Pow2(attempt)) ELSE sleeps)

\* A retry loop that gives up one attempt early.
call_llm_with_retry_short(outcomes, max_retries) ==
    LET n == IF max_retries = 0 THEN agent_max_retries ELSE max_retries
    IN retry_loop(outcomes, n - 1, 0, None, << >>)

\* A retry loop that also waits after its last failed attempt.
call_llm_with_retry_sleeping(outcomes, max_retries) ==
    LET n == IF max_retries = 0 THEN agent_max_retries ELSE max_retries
        res == retry_loop(outcomes, n, 0, None, << >>)
    IN IF res.ok THEN res ELSE [res EXCEPT !.sleeps = Append(@, Pow2(n - 1))]

\* call_llm_with_retry(messages, max_retries): `outcomes` is what the provider
\* does at each attempt; max_retries = 0 stands for both None and 0, which
\* `max_retries or settings.agent_max_retries` both turn into the setting.
call_llm_with_retry(outcomes, max_retries) ==
    LET n == IF max_retries = 0 THEN agent_max_retries ELSE max_retries
    IN retry_loop(outcomes, n, 0, None, << >>)

\* parse_json_response: the text between the fences (the whole text without a
\* fence) is decoded.  With an opening fence and no closing one, find returns
\* -1 and the slice response[start:-1] drops the last character of the text,
\* which for a JSON object ending the text is its closing brace.
parse_json_response(response) ==
    LET truncated == response.fence # "nofence" /\ ~response.closed
    IN IF response.body = "not_json" \/ truncated
       THEN [ok |-> FALSE, data |-> None,
             error |-> Err("MalformedOutput", "Invalid JSON response from LLM")]
       ELSE [ok |-> TRUE, data |-> response.body, error |-> NoError]

\* ActionPlan(**data), DispatchResult(**data), Explanation(**data): the schema
\* validation of models.py: every required field is there and the confidence
\* lies between 0.0 and 1.0.
validate(data) ==
    IF data \in {"valid_object"} \cup ConfidenceBodies
       /\ 0 <= confidence(data) /\ confidence(data) <= 100
    THEN [ok |-> TRUE, error |-> NoError]
    ELSE [ok |-> FALSE, error |-> Err("MalformedOutput", "validation error")]

\* ------------------------------------------------------------------ stores
\* RedisClient.set_memory: setex, with every exception swallowed into False.
set_memory(m, key, value, ok) ==
    IF ok THEN [stored |-> [m EXCEPT ![key] = value], ret |-> TRUE]
    ELSE [stored |-> m, ret |-> FALSE]

\* A read that never finds the key.
get_memory_miss(m, key, ok) == NoRun

\* RedisClient.get_memory: the value, or None when absent or on any exception.
get_memory(m, key, ok) ==
    IF ok THEN m[key] ELSE NoRun

\* ltrim(key, -max_length, -1)
ltrim(list, n) ==
    IF Len(list) <= n THEN list ELSE SubSeq(list, Len(list) - n + 1, Len(list))

\* rpush(key, serialized)
rpush(list, value) == Append(list, value)

\* RedisClient.append_to_list: rpush then ltrim, exceptions swallowed.  The
\* rpush fails (~pushed), or it works and the ltrim fails (~trimmed), or both
\* work.
append_to_list(l, key, value, pushed, trimmed) ==
    IF ~pushed THEN l
    ELSE IF ~trimmed THEN [l EXCEPT ![key] = rpush(@, value)]
    ELSE [l EXCEPT ![key] = ltrim(rpush(@, value), max_length)]

\* RedisClient.publish: the message reaches the channel, or the exception is
\* swallowed and False returned.
publish(sent, message, ok) ==
    IF ok THEN Append(sent, message) ELSE sent

\* An insert that takes the place of the writer's newest row.
log_agent_activity_replacing(log, agent_type, step, data, incident_id, c) ==
    [log EXCEPT ![c] =
        Append(IF @ = << >> THEN << >> ELSE SubSeq(@, 1, Len(@) - 1),
               [agent_type |-> agent_type, step |-> step,
                incident_id |-> incident_id, work_orders_created |-> data])]

\* Database.log_agent_activity: INSERT INTO agent_logs.  The table is kept as
\* the rows each writer inserted, in insertion order.  Of the data column a
\* row keeps work_orders_created.
log_agent_activity(log, agent_type, step, data, incident_id, c) ==
    [log EXCEPT ![c] = Append(@, [agent_type |-> agent_type, step |-> step,
                                  incident_id |-> incident_id,
                                  work_orders_created |-> data])]

\* Database.get_incident_context: the row, or None.
get_incident_context(table, incident_id) ==
    IF incident_id \in table THEN incident_id ELSE None

\* ------------------------------------------------------------------- state
VARIABLES
    run,        \* run[c]: the state of process_incident invocation c
    memory,     \* redis string keys: full key -> the run whose artifact it holds
    lists,      \* redis lists: conversation key -> sequence of messages
    agent_logs, \* the agent_logs table: run -> the rows it inserted, in order
    incidents,  \* the incidents table: the ids it holds
    backend,    \* the work orders the fulfilment service created
    unreliable, \* the operations that can fail in this behaviour
    provider,   \* the ways the reasoning provider can behave during one call
    faults,     \* store / backend operations that have failed so far
    expiries,   \* memory keys that have expired so far
    retry,      \* a call_llm_with_retry invocation on its own
    request     \* an operation other than process_incident being served

vars == <<run, memory, lists, agent_logs, incidents, backend, unreliable,
          provider, faults, expiries, retry, request>>

\* The operations on the stores and the backend that can raise.
Operations ==
    {"get_memory", "set_memory", "append_to_list", "get_list", "publish",
     "log_agent_activity", "get_incident_context", "post_work_order",
     "get_recent_incidents", "get_agent_logs", "rpush", "ltrim"}

\* A message on the bus.  workflow_started, workflow_completed and
\* workflow_failed go to the channel agent:workflow with their name in the
\* "event" field; the others go to the channels agent:plan_created,
\* agent:dispatched and agent:explained, and are named here by their channel.
Event(name, incident_id, error, work_orders_count) ==
    [event |-> name, incident_id |-> incident_id, error |-> error,
     work_orders_count |-> work_orders_count]

NoResult ==
    [status |-> None, action_plan |-> NoRun, dispatch_result |-> NoRun,
     explanation |-> NoRun]

\* The locals of one invocation, and what it has done so far:
\*   existing_plan, action_plan, dispatch_result, explanation: the locals;
\*   error: the exception being handled; stage_error: the exception with which
\*   a stage left; raised: the exception process_incident raised;
\*   result: the value process_incident returned;
\*   published: the events that reached the bus; swallowed: the failed
\*   operations whose exception was swallowed; started: the stages entered;
\*   llm_attempts, llm_ok: provider attempts and successful provider calls of
\*   the stage in progress; work_orders: len(dispatch_result.work_orders);
\*   wo_next: iterations of the submission loop done; wo_created:
\*   len(created_orders); posts: the submissions made, in the order made, each
\*   with the place of its work order in the list and whether it was created.
IdleRun ==
    [pc |-> "idle", incident_id |-> None, force_reprocess |-> FALSE,
     existing_plan |-> NoRun,
     action_plan |-> NoRun, dispatch_result |-> NoRun, explanation |-> NoRun,
     error |-> NoError, stage_error |-> NoError, raised |-> NoError,
     result |-> NoResult,
     published |-> << >>, swallowed |-> {}, started |-> << >>,
     llm_attempts |-> 0, llm_ok |-> 0, data |-> None,
     work_orders |-> 0, wo_next |-> 0, wo_created |-> 0, posts |-> << >>]

NoReturn ==
    [ok |-> FALSE, attempts |-> 0, result |-> NoText, error |-> NoError,
     sleeps |-> << >>]
NoRetry ==
    [state |-> "unused", max_retries |-> 0, outcomes |-> << >>,
     returned |-> NoReturn]
NoRequest == [pc |-> "none"]

\* The rows of agent_logs are kept by writer: the process_incident run that
\* inserted them, or NoRun for the rows inserted outside any run.
Writers == Calls \cup {NoRun}

Stores ==
    /\ run = [c \in Calls |-> IdleRun]
    /\ memory = [k \in AllFullKeys |-> NoRun]
    /\ lists = [k \in {get_conversation_key(i) : i \in IncidentIds} |-> << >>]
    /\ agent_logs = [c \in Writers |-> << >>]
    /\ incidents = StoredIncidents
    /\ backend = {}
    /\ faults = 0
    /\ expiries = 0

\* An operation either works or, if it is unreliable and the budget allows,
\* fails.
Outcome(operation, ok) ==
    /\ ok \/ (operation \in unreliable /\ faults < MaxFaults)
    /\ faults' = IF ok THEN faults ELSE faults + 1

Set(c, r) == run' = [run EXCEPT ![c] = r]

\* The failure of `operation` on `what` was swallowed (when ~ok).
Swallow(r, operation, what, ok) ==
    IF ok THEN r
    ELSE [r EXCEPT !.swallowed = @ \cup {[operation |-> operation, what |-> what]}]

\* An exception is raised: control goes to the handler of the enclosing try.
\* The Coordinator's handler is reached when the exception leaves the stage.
Raise(r, error, handler) ==
    [r EXCEPT !.error = error, !.pc = handler,
              !.stage_error = IF handler = "publish_failed" THEN error ELSE @]

\* ------------------------------------------------------------ Coordinator
\* A caller invokes process_incident(incident_id, force_reprocess).  With
\* force_reprocess the first await is the publish of workflow_started.
process_incident(c, incident_id, force_reprocess) ==
    /\ run[c].pc = "idle"
    /\ Set(c, [run[c] EXCEPT !.incident_id = incident_id,
                             !.force_reprocess = force_reprocess,
                             !.pc = IF force_reprocess THEN "publish_started"
                                    ELSE "check"])
    /\ UNCHANGED <<memory, lists, agent_logs, incidents, backend, unreliable,
                  provider, faults, expiries, retry, request>>

\* A check that publishes workflow_started before it returns already_processed.
check_existing_plan_announcing(c) ==
    /\ run[c].pc = "check"
    /\ \E ok \in BOOLEAN :
        /\ Outcome("get_memory", ok)
        /\ LET existing_plan ==
                    get_memory(memory,
                               full_key("PLANNER", run[c].incident_id, "action_plan"),
                               ok)
               r == Swallow([run[c] EXCEPT !.existing_plan = existing_plan],
                            "get_memory", "action_plan", ok)
           IN Set(c, IF existing_plan # NoRun
                     THEN [r EXCEPT !.result = [NoResult EXCEPT
                                                  !.status = "already_processed"],
                                    !.published =
                                        publish(@, Event("workflow_started",
                                                         run[c].incident_id,
                                                         NoError, 0), TRUE),
                                    !.pc = "returned"]
                     ELSE [r EXCEPT !.pc = "publish_started"])
    /\ UNCHANGED <<memory, lists, agent_logs, incidents, backend, unreliable,
                  provider, expiries, retry, request>>

\* A check that also returns already_processed when another invocation for the
\* same incident is under way.
check_existing_plan_exclusive(c) ==
    /\ run[c].pc = "check"
    /\ \E ok \in BOOLEAN :
        /\ Outcome("get_memory", ok)
        /\ LET existing_plan ==
                    get_memory(memory,
                               full_key("PLANNER", run[c].incident_id, "action_plan"),
                               ok)
               r == Swallow([run[c] EXCEPT !.existing_plan = existing_plan],
                            "get_memory", "action_plan", ok)
               taken == \E d \in DOMAIN run \ {c} :
                            /\ run[d].incident_id = run[c].incident_id
                            /\ run[d].pc \notin {"idle", "check", "returned", "raised"}
           IN Set(c, IF existing_plan # NoRun \/ taken
                     THEN [r EXCEPT !.result = [NoResult EXCEPT
                                                  !.status = "already_processed"],
                                    !.pc = "returned"]
                     ELSE [r EXCEPT !.pc = "publish_started"])
    /\ UNCHANGED <<memory, lists, agent_logs, incidents, backend, unreliable,
                  provider, expiries, retry, request>>

\* A check that lets the failure of its read reach the caller.
check_existing_plan_strict(c) ==
    /\ run[c].pc = "check"
    /\ \E ok \in BOOLEAN :
        /\ Outcome("get_memory", ok)
        /\ LET existing_plan ==
                    get_memory(memory,
                               full_key("PLANNER", run[c].incident_id, "action_plan"),
                               ok)
               r == Swallow([run[c] EXCEPT !.existing_plan = existing_plan],
                            "get_memory", "action_plan", ok)
           IN Set(c, IF ~ok
                     THEN Raise(r, Err("StoreUnavailable", "memory"),
                                "publish_failed")
                     ELSE IF existing_plan # NoRun
                     THEN [r EXCEPT !.result = [NoResult EXCEPT
                                                  !.status = "already_processed"],
                                    !.pc = "returned"]
                     ELSE [r EXCEPT !.pc = "publish_started"])
    /\ UNCHANGED <<memory, lists, agent_logs, incidents, backend, unreliable,
                  provider, expiries, retry, request>>

\* if not force_reprocess: existing_plan = await planner.get_memory(...)
\* if existing_plan: return {"status": "already_processed", ...}
check_existing_plan(c) ==
    /\ run[c].pc = "check"
    /\ \E ok \in BOOLEAN :
        /\ Outcome("get_memory", ok)
        /\ LET existing_plan ==
                    get_memory(memory,
                               full_key("PLANNER", run[c].incident_id, "action_plan"),
                               ok)
               r == Swallow([run[c] EXCEPT !.existing_plan = existing_plan],
                            "get_memory", "action_plan", ok)
           IN Set(c, IF existing_plan # NoRun
                     THEN [r EXCEPT !.result = [NoResult EXCEPT
                                                  !.status = "already_processed"],
                                    !.pc = "returned"]
                     ELSE [r EXCEPT !.pc = "publish_started"])
    /\ UNCHANGED <<memory, lists, agent_logs, incidents, backend, unreliable,
                  provider, expiries, retry, request>>

\* await redis_client.publish(channel, message) in the Coordinator's try block:
\* the return value is not looked at.
coordinator_publish(c, at, message, next) ==
    /\ run[c].pc = at
    /\ \E ok \in BOOLEAN :
        /\ Outcome("publish", ok)
        /\ Set(c, [Swallow(run[c], "publish", message.event, ok) EXCEPT
                     !.published = publish(@, message, ok),
                     !.pc = next])
    /\ UNCHANGED <<memory, lists, agent_logs, incidents, backend, unreliable,
                  provider, expiries, retry, request>>

publish_workflow_started(c) ==
    coordinator_publish(c, "publish_started",
                        Event("workflow_started", run[c].incident_id, NoError, 0),
                        "planner_log_start")

\* The plan_created publish sent under the name of the next event.
publish_plan_created_misnamed(c) ==
    coordinator_publish(c, "publish_plan_created",
                        Event("dispatched", run[c].incident_id, NoError, 0),
                        "dispatcher_log_start")

\* A Coordinator that goes from the plan straight to the Analyst.
publish_plan_created_skipping(c) ==
    coordinator_publish(c, "publish_plan_created",
                        Event("plan_created", run[c].incident_id, NoError, 0),
                        "analyst_log_start")

publish_plan_created(c) ==
    coordinator_publish(c, "publish_plan_created",
                        Event("plan_created", run[c].incident_id, NoError, 0),
                        "dispatcher_log_start")

\* "work_orders_count": len(dispatch_result.work_orders)
publish_dispatched(c) ==
    coordinator_publish(c, "publish_dispatched",
                        Event("dispatched", run[c].incident_id, NoError,
                              run[c].work_orders),
                        "analyst_log_start")

publish_explained(c) ==
    coordinator_publish(c, "publish_explained",
                        Event("explained", run[c].incident_id, NoError, 0),
                        "publish_completed")

\* A result without the explanation.
compile_results_partial(r) ==
    [status |-> "completed", action_plan |-> r.action_plan,
     dispatch_result |-> r.dispatch_result, explanation |-> NoRun]

\* result = {"status": "completed", ...}
compile_results(r) ==
    [status |-> "completed", action_plan |-> r.action_plan,
     dispatch_result |-> r.dispatch_result, explanation |-> r.explanation]

\* publish workflow_completed; return result
publish_workflow_completed(c) ==
    /\ run[c].pc = "publish_completed"
    /\ \E ok \in BOOLEAN :
        /\ Outcome("publish", ok)
        /\ Set(c, [Swallow(run[c], "publish", "workflow_completed", ok) EXCEPT
                     !.published = publish(@, Event("workflow_completed",
                                                    run[c].incident_id, NoError, 0),
                                           ok),
                     !.result = compile_results(run[c]),
                     !.pc = "returned"])
    /\ UNCHANGED <<memory, lists, agent_logs, incidents, backend, unreliable,
                  provider, expiries, retry, request>>

\* A handler that raises a new exception wrapping the stage's.
reraise_wrapped(r) == Err("ProcessingFailed", r.error.text)

\* The exception the Coordinator's handler lets through: a bare `raise`.
reraise(r) == r.error

\* A handler that also deletes what the run's agents keep in memory for the
\* incident.
publish_workflow_failed_rolling_back(c) ==
    /\ run[c].pc = "publish_failed"
    /\ \E ok \in BOOLEAN :
        /\ Outcome("publish", ok)
        /\ Set(c, [Swallow(run[c], "publish", "workflow_failed", ok) EXCEPT
                     !.published = publish(@, Event("workflow_failed",
                                                    run[c].incident_id,
                                                    run[c].error, 0), ok),
                     !.raised = run[c].error,
                     !.pc = "raised"])
    /\ memory' = [k \in DOMAIN memory |->
                    IF k[3] = run[c].incident_id THEN NoRun ELSE memory[k]]
    /\ UNCHANGED <<lists, agent_logs, incidents, backend, unreliable,
                  provider, expiries, retry, request>>

\* except Exception as e: publish workflow_failed with str(e); raise
publish_workflow_failed(c) ==
    /\ run[c].pc = "publish_failed"
    /\ \E ok \in BOOLEAN :
        /\ Outcome("publish", ok)
        /\ Set(c, [Swallow(run[c], "publish", "workflow_failed", ok) EXCEPT
                     !.published = publish(@, Event("workflow_failed",
                                                    run[c].incident_id,
                                                    run[c].error, 0), ok),
                     !.raised = reraise(run[c]),
                     !.pc = "raised"])
    /\ UNCHANGED <<memory, lists, agent_logs, incidents, backend, unreliable,
                  provider, expiries, retry, request>>

\* ------------------------------------------------------------ shared steps
\* What the provider does over the attempts of one call_llm_with_retry: `k`
\* attempts fail in the way `f`, every later one returns the text `t`.
ProviderBehaviours ==
    {[i \in 1..agent_max_retries |-> IF i <= k THEN f ELSE t] :
        k \in 0..agent_max_retries, f \in AttemptFailures, t \in Texts}

\* The provider answers every call at once with a valid payload, or times out
\* at every attempt.
answers_at_once ==
    [i \in 1..agent_max_retries |->
        [kind |-> "text", fence |-> "json", closed |-> TRUE, body |-> "valid_object"]]
always_times_out ==
    [i \in 1..agent_max_retries |->
        [kind |-> "timeout", fence |-> None, closed |-> FALSE, body |-> None]]

\* The data of an entry: DISPATCH_COMPLETED carries
\* "work_orders_created": len(created_work_orders); no other entry has it.
log_data(c, step) ==
    IF step = "DISPATCH_COMPLETED" THEN run[c].wo_created ELSE 0

\* A log_reasoning that swallows the failure of the insert.
log_reasoning_best_effort(c, agent_type, step, ok, entered, next, handler) ==
    /\ Outcome("log_agent_activity", ok)
    /\ agent_logs' = IF ok
                     THEN log_agent_activity(agent_logs, agent_type, step,
                                             log_data(c, step),
                                             run[c].incident_id, c)
                     ELSE agent_logs
    /\ Set(c, [entered EXCEPT !.pc = next])

\* BaseAgent.log_reasoning: the row is inserted and the run goes on at `next`,
\* or the insert fails and the exception is raised again, to `handler`.
log_reasoning(c, agent_type, step, ok, entered, next, handler) ==
    /\ Outcome("log_agent_activity", ok)
    /\ IF ok
       THEN /\ agent_logs' = log_agent_activity(agent_logs, agent_type, step,
                                                log_data(c, step),
                                                run[c].incident_id, c)
            /\ Set(c, [entered EXCEPT !.pc = next])
       ELSE /\ agent_logs' = agent_logs
            /\ Set(c, Raise(entered, Err("StoreUnavailable", "agent_logs"),
                            handler))

\* The first step of a stage: its *_START entry, logged before the try block,
\* so a failure of the insert leaves the stage at once.
stage_log_start(c, at, stage, agent_type, step, next) ==
    /\ run[c].pc = at
    /\ \E ok \in BOOLEAN :
        log_reasoning(c, agent_type, step, ok,
                      [run[c] EXCEPT !.started = Append(@, stage),
                                     !.llm_attempts = 0, !.llm_ok = 0,
                                     !.data = None],
                      next, "publish_failed")
    /\ UNCHANGED <<memory, lists, incidents, backend, unreliable, provider,
                  expiries, retry, request>>

\* A log_reasoning inside the try block of a stage.
stage_log(c, at, agent_type, step, next, handler) ==
    /\ run[c].pc = at
    /\ \E ok \in BOOLEAN :
        log_reasoning(c, agent_type, step, ok, run[c], next, handler)
    /\ UNCHANGED <<memory, lists, incidents, backend, unreliable, provider,
                  expiries, retry, request>>

\* A fetch that does not look at what it read.
stage_fetch_incident_unchecked(c, at, next, handler) ==
    /\ run[c].pc = at
    /\ \E ok \in BOOLEAN :
        /\ Outcome("get_incident_context", ok)
        /\ Set(c, IF ~ok
                  THEN Raise(run[c], Err("StoreUnavailable", "incidents"), handler)
                  ELSE [run[c] EXCEPT !.pc = next])
    /\ UNCHANGED <<memory, lists, agent_logs, incidents, backend, unreliable,
                   provider, expiries, retry, request>>

\* incident = await db.get_incident_context(incident_id)
\* if not incident: raise ValueError(f"Incident {incident_id} not found")
stage_fetch_incident(c, at, next, handler) ==
    /\ run[c].pc = at
    /\ \E ok \in BOOLEAN :
        /\ Outcome("get_incident_context", ok)
        /\ Set(c, IF ~ok
                  THEN Raise(run[c], Err("StoreUnavailable", "incidents"), handler)
                  ELSE IF get_incident_context(incidents, run[c].incident_id) = None
                  THEN Raise(run[c], Err("IncidentNotFound", run[c].incident_id),
                             handler)
                  ELSE [run[c] EXCEPT !.pc = next])
    /\ UNCHANGED <<memory, lists, agent_logs, incidents, backend, unreliable,
                  provider, expiries, retry, request>>

\* A stage that asks the provider once more when the text does not parse.
stage_llm_reasked(r, outcomes, made, handler) ==
    LET res == call_llm_with_retry(outcomes, 0)
        counted == [r EXCEPT !.llm_attempts = res.attempts,
                             !.llm_ok = IF res.ok THEN 1 ELSE 0]
        reasked == [r EXCEPT !.llm_attempts = res.attempts + 1, !.llm_ok = 2]
    IN IF ~res.ok THEN Raise(counted, res.error, handler)
       ELSE LET parsed == parse_json_response(res.result) IN
            IF ~parsed.ok THEN Raise(reasked, parsed.error, handler)
            ELSE LET valid == validate(parsed.data) IN
                 IF ~valid.ok
                 THEN Raise([counted EXCEPT !.data = parsed.data], valid.error,
                            handler)
                 ELSE [made EXCEPT !.llm_attempts = res.attempts, !.llm_ok = 1,
                                   !.data = parsed.data]

\* A stage that builds its artifact from whatever object was decoded.
stage_llm_unvalidated(r, outcomes, made, handler) ==
    LET res == call_llm_with_retry(outcomes, 0)
        counted == [r EXCEPT !.llm_attempts = res.attempts,
                             !.llm_ok = IF res.ok THEN 1 ELSE 0]
    IN IF ~res.ok THEN Raise(counted, res.error, handler)
       ELSE LET parsed == parse_json_response(res.result) IN
            IF ~parsed.ok THEN Raise(counted, parsed.error, handler)
            ELSE [made EXCEPT !.llm_attempts = res.attempts, !.llm_ok = 1,
                              !.data = parsed.data]

\* response = await self.call_llm_with_retry(messages)
\* data = self.parse_json_response(response); artifact = Model(**data)
\* The run record after these lines, for the provider behaviour `outcomes`;
\* `made` is the record of a run whose artifact was built.
stage_llm(r, outcomes, made, handler) ==
    LET res == call_llm_with_retry(outcomes, 0)
        counted == [r EXCEPT !.llm_attempts = res.attempts,
                             !.llm_ok = IF res.ok THEN 1 ELSE 0]
    IN IF ~res.ok THEN Raise(counted, res.error, handler)
       ELSE LET parsed == parse_json_response(res.result) IN
            IF ~parsed.ok THEN Raise(counted, parsed.error, handler)
            ELSE LET valid == validate(parsed.data) IN
                 IF ~valid.ok
                 THEN Raise([counted EXCEPT !.data = parsed.data], valid.error,
                            handler)
                 ELSE [made EXCEPT !.llm_attempts = res.attempts, !.llm_ok = 1,
                                   !.data = parsed.data]

\* await self.store_memory(incident_id, key, value): the result is dropped.
stage_store(c, at, agent_type, key, value, next) ==
    /\ run[c].pc = at
    /\ \E ok \in BOOLEAN :
        /\ Outcome("set_memory", ok)
        /\ memory' = set_memory(memory,
                                full_key(agent_type, run[c].incident_id, key),
                                value, ok).stored
        /\ Set(c, [Swallow(run[c], "set_memory", key, ok) EXCEPT !.pc = next])
    /\ UNCHANGED <<lists, agent_logs, incidents, backend, unreliable,
                  provider, expiries, retry, request>>

\* await self.add_to_conversation(incident_id, message); return artifact
stage_conversation(c, at, agent_type, action, next) ==
    /\ run[c].pc = at
    /\ \E pushed, trimmed \in BOOLEAN :
        /\ trimmed => pushed
        /\ Outcome("append_to_list", trimmed)
        /\ lists' = append_to_list(lists, get_conversation_key(run[c].incident_id),
                                   [agent |-> agent_type, action |-> action,
                                    run |-> c], pushed, trimmed)
        /\ Set(c, [Swallow(run[c], "append_to_list", action, trimmed) EXCEPT
                     !.pc = next])
    /\ UNCHANGED <<memory, agent_logs, incidents, backend, unreliable,
                  provider, expiries, retry, request>>

\* A handler that re-raises without logging.
stage_failed_silent(c, at, agent_type, step) ==
    /\ run[c].pc = at
    /\ Set(c, Raise(run[c], run[c].error, "publish_failed"))
    /\ UNCHANGED <<memory, lists, agent_logs, incidents, backend, unreliable,
                   provider, faults, expiries, retry, request>>

\* A handler that asks the provider again instead of raising.
stage_failed_retrying(c, at, agent_type, step) ==
    /\ run[c].pc = at
    /\ Set(c, [run[c] EXCEPT !.pc = CASE agent_type = "PLANNER" -> "planner_llm"
                                      [] agent_type = "DISPATCHER" -> "dispatcher_llm"
                                      [] agent_type = "ANALYST" -> "analyst_llm"])
    /\ UNCHANGED <<memory, lists, agent_logs, incidents, backend, unreliable,
                   provider, faults, expiries, retry, request>>

\* except Exception as e: await self.log_reasoning(step="*_FAILED", ...); raise
\* If the insert fails, its exception is the one that leaves the stage.
stage_failed(c, at, agent_type, step) ==
    /\ run[c].pc = at
    /\ \E ok \in BOOLEAN :
        /\ Outcome("log_agent_activity", ok)
        /\ IF ok
           THEN /\ agent_logs' = log_agent_activity(agent_logs, agent_type, step,
                                                    log_data(c, step),
                                                    run[c].incident_id, c)
                /\ Set(c, Raise(run[c], run[c].error, "publish_failed"))
           ELSE /\ agent_logs' = agent_logs
                /\ Set(c, Raise(run[c], Err("StoreUnavailable", "agent_logs"),
                                "publish_failed"))
    /\ UNCHANGED <<memory, lists, incidents, backend, unreliable, provider,
                  expiries, retry, request>>

\* ---------------------------------------------------------------- Planner
analyze_incident_log_start(c) ==
    stage_log_start(c, "planner_log_start", "planner", "PLANNER",
                    "ANALYSIS_START", "planner_gather")

\* context = await self._gather_context(incident_id): reads of the incidents
\* table; an absent incident gives the empty context.
analyze_incident_gather_context(c) ==
    /\ run[c].pc = "planner_gather"
    /\ \E ok \in BOOLEAN :
        /\ Outcome("get_incident_context", ok)
        /\ Set(c, IF ok THEN [run[c] EXCEPT !.pc = "planner_log_context"]
                  ELSE Raise(run[c], Err("StoreUnavailable", "incidents"),
                             "planner_failed"))
    /\ UNCHANGED <<memory, lists, agent_logs, incidents, backend, unreliable,
                  provider, expiries, retry, request>>

analyze_incident_log_context(c) ==
    stage_log(c, "planner_log_context", "PLANNER", "CONTEXT_GATHERED",
              "planner_fetch", "planner_failed")

analyze_incident_fetch(c) ==
    stage_fetch_incident(c, "planner_fetch", "planner_llm", "planner_failed")

analyze_incident_llm(c) ==
    /\ run[c].pc = "planner_llm"
    /\ \E outcomes \in provider :
        Set(c, stage_llm(run[c], outcomes,
                         [run[c] EXCEPT !.action_plan = c, !.pc = "planner_store"],
                         "planner_failed"))
    /\ UNCHANGED <<memory, lists, agent_logs, incidents, backend, unreliable,
                  provider, faults, expiries, retry, request>>

analyze_incident_store(c) ==
    stage_store(c, "planner_store", "PLANNER", "action_plan",
                run[c].action_plan, "planner_log_created")

analyze_incident_log_created(c) ==
    stage_log(c, "planner_log_created", "PLANNER", "PLAN_CREATED",
              "planner_conversation", "planner_failed")

analyze_incident_conversation(c) ==
    stage_conversation(c, "planner_conversation", "PLANNER", "created_plan",
                       "publish_plan_created")

analyze_incident_failed(c) ==
    stage_failed(c, "planner_failed", "PLANNER", "ANALYSIS_FAILED")

\* -------------------------------------------------------------- Dispatcher
dispatch_log_start(c) ==
    stage_log_start(c, "dispatcher_log_start", "dispatcher", "DISPATCHER",
                    "DISPATCH_START", "dispatcher_fetch")

\* get_incident_context, then the synchronous _find_available_units
dispatch_fetch(c) ==
    stage_fetch_incident(c, "dispatcher_fetch", "dispatcher_log_units",
                         "dispatcher_failed")

dispatch_log_units(c) ==
    stage_log(c, "dispatcher_log_units", "DISPATCHER", "UNITS_FOUND",
              "dispatcher_llm", "dispatcher_failed")

\* The validated DispatchResult carries `n` work orders.  With none,
\* _create_work_orders awaits nothing and the next await is the store.
dispatch_llm(c) ==
    /\ run[c].pc = "dispatcher_llm"
    /\ \E outcomes \in provider, n \in 0..MaxWorkOrders :
        Set(c, stage_llm(run[c], outcomes,
                         [run[c] EXCEPT !.dispatch_result = c,
                                        !.work_orders = n,
                                        !.pc = IF n = 0 THEN "dispatcher_store"
                                               ELSE "dispatcher_work_orders"],
                         "dispatcher_failed"))
    /\ UNCHANGED <<memory, lists, agent_logs, incidents, backend, unreliable,
                  provider, faults, expiries, retry, request>>

\* A submission loop that lets the failure of a submission leave the stage.
create_work_order_strict(c) ==
    /\ run[c].pc = "dispatcher_work_orders"
    /\ \E ok \in BOOLEAN :
        /\ Outcome("post_work_order", ok)
        /\ backend' = IF ok
                      THEN backend \cup {[incident_id |-> run[c].incident_id,
                                          run |-> c,
                                          index |-> run[c].wo_next + 1]}
                      ELSE backend
        /\ Set(c, IF ~ok
                  THEN Raise([run[c] EXCEPT
                                !.wo_next = @ + 1,
                                !.posts = Append(@, [index |-> run[c].wo_next + 1,
                                                     created |-> FALSE])],
                             Err("BackendUnavailable", "work-orders"),
                             "dispatcher_failed")
                  ELSE [run[c] EXCEPT
                          !.wo_next = @ + 1,
                          !.wo_created = @ + 1,
                          !.posts = Append(@, [index |-> run[c].wo_next + 1,
                                               created |-> TRUE]),
                          !.pc = IF run[c].wo_next + 1 >= run[c].work_orders
                                 THEN "dispatcher_store"
                                 ELSE "dispatcher_work_orders"])
    /\ UNCHANGED <<memory, lists, agent_logs, incidents, unreliable, provider,
                   expiries, retry, request>>

\* One iteration of the loop of _create_work_orders: the POST answers 201 and
\* the order is collected, or it answers otherwise or raises and is skipped.
create_work_order(c) ==
    /\ run[c].pc = "dispatcher_work_orders"
    /\ \E ok \in BOOLEAN :
        /\ Outcome("post_work_order", ok)
        /\ backend' = IF ok
                      THEN backend \cup {[incident_id |-> run[c].incident_id,
                                          run |-> c,
                                          index |-> run[c].wo_next + 1]}
                      ELSE backend
        /\ Set(c, [Swallow(run[c], "post_work_order", "work_order", ok) EXCEPT
                     !.wo_next = @ + 1,
                     !.wo_created = IF ok THEN @ + 1 ELSE @,
                     !.posts = Append(@, [index |-> run[c].wo_next + 1,
                                          created |-> ok]),
                     !.pc = IF run[c].wo_next + 1 >= run[c].work_orders
                            THEN "dispatcher_store"
                            ELSE "dispatcher_work_orders"])
    /\ UNCHANGED <<memory, lists, agent_logs, incidents, unreliable, provider,
                  expiries, retry, request>>

dispatch_store(c) ==
    stage_store(c, "dispatcher_store", "DISPATCHER", "dispatch_result",
                run[c].dispatch_result, "dispatcher_log_completed")

dispatch_log_completed(c) ==
    stage_log(c, "dispatcher_log_completed", "DISPATCHER", "DISPATCH_COMPLETED",
              "dispatcher_conversation", "dispatcher_failed")

dispatch_conversation(c) ==
    stage_conversation(c, "dispatcher_conversation", "DISPATCHER",
                       "dispatched_units", "publish_dispatched")

dispatch_failed(c) ==
    stage_failed(c, "dispatcher_failed", "DISPATCHER", "DISPATCH_FAILED")

\* ----------------------------------------------------------------- Analyst
explain_decision_log_start(c) ==
    stage_log_start(c, "analyst_log_start", "analyst", "ANALYST",
                    "EXPLANATION_START", "analyst_fetch")

explain_decision_fetch(c) ==
    stage_fetch_incident(c, "analyst_fetch", "analyst_llm", "analyst_failed")

explain_decision_llm(c) ==
    /\ run[c].pc = "analyst_llm"
    /\ \E outcomes \in provider :
        Set(c, stage_llm(run[c], outcomes,
                         [run[c] EXCEPT !.explanation = c, !.pc = "analyst_store"],
                         "analyst_failed"))
    /\ UNCHANGED <<memory, lists, agent_logs, incidents, backend, unreliable,
                  provider, faults, expiries, retry, request>>

explain_decision_store(c) ==
    stage_store(c, "analyst_store", "ANALYST", "explanation",
                run[c].explanation, "analyst_log_created")

explain_decision_log_created(c) ==
    stage_log(c, "analyst_log_created", "ANALYST", "EXPLANATION_CREATED",
              "analyst_conversation", "analyst_failed")

explain_decision_conversation(c) ==
    stage_conversation(c, "analyst_conversation", "ANALYST",
                       "explained_decision", "publish_explained")

explain_decision_failed(c) ==
    stage_failed(c, "analyst_failed", "ANALYST", "EXPLANATION_FAILED")

\* One step of invocation c.
Step(c) ==
    \/ check_existing_plan(c)
    \/ publish_workflow_started(c)
    \/ analyze_incident_log_start(c)
    \/ analyze_incident_gather_context(c)
    \/ analyze_incident_log_context(c)
    \/ analyze_incident_fetch(c)
    \/ analyze_incident_llm(c)
    \/ analyze_incident_store(c)
    \/ analyze_incident_log_created(c)
    \/ analyze_incident_conversation(c)
    \/ analyze_incident_failed(c)
    \/ publish_plan_created(c)
    \/ dispatch_log_start(c)
    \/ dispatch_fetch(c)
    \/ dispatch_log_units(c)
    \/ dispatch_llm(c)
    \/ create_work_order(c)
    \/ dispatch_store(c)
    \/ dispatch_log_completed(c)
    \/ dispatch_conversation(c)
    \/ dispatch_failed(c)
    \/ publish_dispatched(c)
    \/ explain_decision_log_start(c)
    \/ explain_decision_fetch(c)
    \/ explain_decision_llm(c)
    \/ explain_decision_store(c)
    \/ explain_decision_log_created(c)
    \/ explain_decision_conversation(c)
    \/ explain_decision_failed(c)
    \/ publish_explained(c)
    \/ publish_workflow_completed(c)
    \/ publish_workflow_failed(c)

Finished(c) == run[c].pc \in {"returned", "raised"}
InProgress(c) == run[c].pc \notin {"idle", "returned", "raised"}

\* ------------------------------------------------------------- environment
\* The owner of the incidents table removes a row.
delete_incident(incident_id) ==
    /\ incident_id \in incidents
    /\ incidents' = incidents \ {incident_id}
    /\ UNCHANGED <<run, memory, lists, agent_logs, backend, unreliable,
                  provider, faults, expiries, retry, request>>

\* setex(key, ttl, value) with the TTL of an hour: the key is gone once its TTL
\* has run out, which takes longer than any run.
expire(key) ==
    /\ memory[key] # NoRun
    /\ \A c \in Calls : ~InProgress(c)
    /\ expiries < MaxExpiries
    /\ memory' = [memory EXCEPT ![key] = NoRun]
    /\ expiries' = expiries + 1
    /\ UNCHANGED <<run, lists, agent_logs, incidents, backend, unreliable,
                  provider, faults, retry, request>>

\* ---------------------------------------------------------- specifications
\* One invocation; every store and the backend can fail and the incident of
\* the run can be removed under it.
Init ==
    /\ Stores
    /\ unreliable = Operations
    /\ provider = ProviderBehaviours
    /\ retry = NoRetry
    /\ request = NoRequest

call_once ==
    \E i \in IncidentIds, f \in BOOLEAN : process_incident(1, i, f)

Next ==
    \/ call_once
    \/ Step(1)
    \/ delete_incident(run[1].incident_id)

Spec == Init /\ [][Next]_vars

\* One invocation under the scheduling of the event loop: a coroutine whose
\* awaited operation has returned or failed is resumed, so an invocation that
\* can take a step takes one.  Every store and the backend can fail; the
\* provider answers at once or times out at every attempt.
InitLive ==
    /\ Stores
    /\ unreliable = Operations
    /\ provider = {answers_at_once, always_times_out}
    /\ retry = NoRetry
    /\ request = NoRequest

SpecLive == InitLive /\ [][Next]_vars /\ WF_vars(Step(1))

\* Two invocations, the second made after the first has ended; the key-value
\* store can fail at reads and writes of memory, and keys expire between runs.
InitSequential ==
    /\ Stores
    /\ unreliable = {"get_memory", "set_memory"}
    /\ provider = {answers_at_once, always_times_out}
    /\ retry = NoRetry
    /\ request = NoRequest

call_in_sequence ==
    \E c \in Calls, i \in IncidentIds, f \in BOOLEAN :
        /\ \A d \in Calls \ {c} : ~InProgress(d)
        /\ c = 2 => Finished(1)
        /\ process_incident(c, i, f)

NextSequential ==
    \/ call_in_sequence
    \/ \E c \in Calls : Step(c)
    \/ \E key \in AllFullKeys : expire(key)

SpecSequential == InitSequential /\ [][NextSequential]_vars

\* Two unforced invocations running concurrently on one event loop, every
\* store working.  The invocations are interchangeable, so the one called 1 is the
\* one that starts first.
InitConcurrent ==
    /\ Stores
    /\ unreliable = {}
    /\ provider = {answers_at_once, always_times_out}
    /\ retry = NoRetry
    /\ request = NoRequest

call_concurrently ==
    \E c \in Calls, i \in IncidentIds :
        /\ c = 2 => run[1].pc # "idle"
        /\ process_incident(c, i, FALSE)

NextConcurrent ==
    \/ call_concurrently
    \/ \E c \in Calls : Step(c)

SpecConcurrent == InitConcurrent /\ [][NextConcurrent]_vars

\* call_llm_with_retry on its own: an agent calls it with some max_retries
\* against a provider that behaves in some way at each attempt.
RetryTexts ==
    {[kind |-> "text", fence |-> "nofence", closed |-> FALSE, body |-> "valid_object"],
     [kind |-> "text", fence |-> "json", closed |-> TRUE, body |-> "not_json"]}
RetryOutcomes == AttemptFailures \cup RetryTexts

\* The attempts the loop makes at most: range(max_retries) after the fallback.
effective_max_retries(max_retries) ==
    IF max_retries = 0 THEN agent_max_retries ELSE max_retries

InitRetry ==
    /\ Stores
    /\ unreliable = {}
    /\ provider = {}
    /\ retry \in [state : {"ready"}, max_retries : 0..MaxRetriesArg,
                  outcomes : [1..MaxRetriesArg -> RetryOutcomes],
                  returned : {NoReturn}]
    /\ request = NoRequest

invoke_call_llm_with_retry ==
    /\ retry.state = "ready"
    /\ retry' = [retry EXCEPT !.state = "done",
                              !.returned = call_llm_with_retry(retry.outcomes,
                                                               retry.max_retries)]
    /\ UNCHANGED <<run, memory, lists, agent_logs, incidents, backend,
                  unreliable, provider, faults, expiries, request>>

NextRetry == invoke_call_llm_with_retry

SpecRetry == InitRetry /\ [][NextRetry]_vars

\* ------------------------------------------------------------------ claims
AllTimeOut(outcomes, n) == \A i \in 1..n : outcomes[i].kind = "timeout"
FirstSuccessAt(outcomes, k) ==
    /\ outcomes[k].kind = "text"
    /\ \A j \in 1..(k - 1) : outcomes[j].kind # "text"

\* C6: when every attempt times out, call_llm_with_retry makes exactly
\* max_retries attempts and fails with the error that carries the last
\* attempt's message; when attempt k <= max_retries is the first to succeed,
\* exactly k attempts are made and the response of attempt k is returned.
C6_RetryBound ==
    retry.state = "done" =>
        LET n == effective_max_retries(retry.max_retries)
            outs == retry.outcomes
            ret == retry.returned
        IN /\ AllTimeOut(outs, n) =>
                /\ ~ret.ok
                /\ ret.attempts = n
                /\ ret.error = Err("ProviderUnavailable", error_text(outs[n]))
           /\ \A k \in 1..n :
                FirstSuccessAt(outs, k) =>
                    /\ ret.ok
                    /\ ret.attempts = k
                    /\ ret.result = outs[k]

\* Every attempt of a call with max_retries = 2 timed out and the call failed
\* after two attempts.
C6_Witness ==
    /\ retry.state = "done"
    /\ retry.max_retries = 2
    /\ AllTimeOut(retry.outcomes, 2)
    /\ retry.returned.attempts = 2
    /\ retry.returned.error.kind = "ProviderUnavailable"

\* ---------------------------------------------- what a run has done so far
Range(seq) == {seq[i] : i \in 1..Len(seq)}
Last(seq) == seq[Len(seq)]

Lifecycle ==
    <<"workflow_started", "plan_created", "dispatched", "explained",
      "workflow_completed">>
StageOrder == <<"planner", "dispatcher", "analyst">>

EventNames(c) == [i \in 1..Len(run[c].published) |-> run[c].published[i].event]
Unpublished(c) ==
    {x.what : x \in {y \in run[c].swallowed : y.operation = "publish"}}
WorkflowFailedEvents(c) ==
    SelectSeq(run[c].published, LAMBDA m : m.event = "workflow_failed")

Populated(result) ==
    /\ result.action_plan # NoRun
    /\ result.dispatch_result # NoRun
    /\ result.explanation # NoRun
Completed(c) == run[c].pc = "returned" /\ run[c].result.status = "completed"
ShortCircuited(c) ==
    run[c].pc = "returned" /\ run[c].result.status = "already_processed"

AgentOf(stage) ==
    CASE stage = "planner" -> "PLANNER"
      [] stage = "dispatcher" -> "DISPATCHER"
      [] stage = "analyst" -> "ANALYST"
KeyOf(stage) ==
    CASE stage = "planner" -> "action_plan"
      [] stage = "dispatcher" -> "dispatch_result"
      [] stage = "analyst" -> "explanation"
ArtifactOf(r, stage) ==
    CASE stage = "planner" -> r.action_plan
      [] stage = "dispatcher" -> r.dispatch_result
      [] stage = "analyst" -> r.explanation
HandlerOf(stage) ==
    CASE stage = "planner" -> "planner_failed"
      [] stage = "dispatcher" -> "dispatcher_failed"
      [] stage = "analyst" -> "analyst_failed"
StoredBy(c, stage) ==
    memory[full_key(AgentOf(stage), run[c].incident_id, KeyOf(stage))] = c

\* The stages after the last one the run entered.
StagesAfter(c) == {StageOrder[i] : i \in (Len(run[c].started) + 1)..3}
\* Nothing of the stage has happened in run c.
Untouched(c, stage) ==
    /\ \A e \in Range(agent_logs[c]) : e.agent_type # AgentOf(stage)
    /\ ArtifactOf(run[c], stage) = NoRun
    /\ ~StoredBy(c, stage)

LogPcs ==
    {"planner_log_start", "planner_log_context", "planner_log_created",
     "planner_failed", "dispatcher_log_start", "dispatcher_log_units",
     "dispatcher_log_completed", "dispatcher_failed", "analyst_log_start",
     "analyst_log_created", "analyst_failed"}
FetchPcs == {"planner_fetch", "dispatcher_fetch", "analyst_fetch"}
FailurePcs ==
    {"planner_failed", "dispatcher_failed", "analyst_failed", "publish_failed",
     "raised"}
\* The stage has raised: the Coordinator's handler runs or has run.
StageRaised(c) == run[c].pc \in {"publish_failed", "raised"}

\* Run c takes the step of its idempotency check.
CheckStep(c) == run[c].pc = "check" /\ run'[c].pc # "check"
\* Another unforced run for the same incident has completed and the plan it
\* wrote is the one in memory.
EarlierCompleted(c) ==
    \E d \in Calls \ {c} :
        /\ Completed(d)
        /\ ~run[d].force_reprocess
        /\ run[d].incident_id = run[c].incident_id
        /\ memory[full_key("PLANNER", run[c].incident_id, "action_plan")]
             = run[d].action_plan
AlreadyProcessed(c) ==
    /\ run'[c].pc = "returned"
    /\ run'[c].result.status = "already_processed"
    /\ run'[c].started = << >>
    /\ memory' = memory

C2_AtMostOneCompleted ==
    \A i \in IncidentIds :
        Cardinality({c \in Calls : /\ Completed(c)
                                   /\ run[c].incident_id = i
                                   /\ ~run[c].force_reprocess}) <= 1

C4_AbortOnStageFailure ==
    \A c \in Calls :
        /\ StageRaised(c) =>
            /\ run[c].stage_error # NoError
            /\ run[c].started # << >>
            /\ \A stage \in StagesAfter(c) : Untouched(c, stage)
            /\ "workflow_completed" \notin Range(EventNames(c))
            /\ run[c].result = NoResult
        /\ run[c].pc = "raised" =>
            /\ run[c].raised = run[c].stage_error
            /\ WorkflowFailedEvents(c) =
                 IF "workflow_failed" \in Unpublished(c) THEN << >>
                 ELSE <<Event("workflow_failed", run[c].incident_id,
                              run[c].stage_error, 0)>>

\* C4 as stated: a run that raised has published exactly one workflow_failed,
\* carrying the error it raised.
C4_AsStated ==
    \A c \in Calls :
        run[c].pc = "raised" =>
            /\ Len(WorkflowFailedEvents(c)) = 1
            /\ WorkflowFailedEvents(c)[1].error = run[c].raised

\* The Dispatcher raised after the Planner had returned, and the one
\* workflow_failed is on the bus.
C4_Witness ==
    \E c \in Calls :
        /\ run[c].pc = "raised"
        /\ run[c].started = <<"planner", "dispatcher">>
        /\ run[c].action_plan # NoRun
        /\ Len(WorkflowFailedEvents(c)) = 1

\* C5 (as amended): a call that has ended has returned the complete result,
\* or has returned the already_processed result, which carries no artifact, or
\* has raised one error and returned nothing.
C5_ResultShape ==
    \A c \in Calls :
        /\ run[c].pc = "returned" =>
            /\ run[c].raised = NoError
            /\ \/ run[c].result.status = "completed" /\ Populated(run[c].result)
               \/ /\ run[c].result = [NoResult EXCEPT !.status = "already_processed"]
                  /\ ~run[c].force_reprocess
                  /\ run[c].existing_plan # NoRun
        /\ run[c].pc = "raised" =>
            (run[c].raised # NoError /\ run[c].result = NoResult)
        /\ run[c].pc \notin {"returned", "raised"} =>
            (run[c].raised = NoError /\ run[c].result = NoResult)

\* C5 as stated: every value a call returns is the complete result.
C5_AsStated ==
    \A c \in Calls :
        run[c].pc = "returned" =>
            (run[c].result.status = "completed" /\ Populated(run[c].result))

\* A call returned the already_processed result.
C5_Witness ==
    \E c \in Calls :
        /\ ShortCircuited(c)
        /\ run[c].existing_plan # NoRun
        /\ ~Populated(run[c].result)

\* C7: a stage whose provider text does not parse or does not validate has
\* failed after exactly one successful provider call and is on its way out: it
\* is in its handler or has raised, with no further provider call.
C7_MalformedNeverRetried ==
    \A c \in Calls :
        run[c].error.kind = "MalformedOutput" =>
            /\ run[c].llm_ok = 1
            /\ run[c].llm_attempts \in 1..agent_max_retries
            /\ run[c].pc \in {HandlerOf(Last(run[c].started)), "publish_failed",
                              "raised"}
            /\ ArtifactOf(run[c], Last(run[c].started)) = NoRun
            /\ run[c].result = NoResult

\* A run raised on a malformed text that the provider returned at the second
\* attempt.
C7_Witness ==
    \E c \in Calls :
        /\ run[c].pc = "raised"
        /\ run[c].raised.kind = "MalformedOutput"
        /\ run[c].llm_attempts = 2
        /\ run[c].llm_ok = 1

\* Run c takes a step that logs, and no row is inserted.
LogStepFailed(c) ==
    /\ run[c].pc \in LogPcs
    /\ run'[c].pc # run[c].pc
    /\ agent_logs'[c] = agent_logs[c]

\* C8: a step of a stage whose insert into the audit log fails takes the stage
\* to its failure path with the store's error, and a stage on its failure path
\* never goes back: it raises and returns no artifact.
C8_AuditFailureFatal ==
    [][\A c \in Calls :
         /\ LogStepFailed(c) =>
              /\ run'[c].error = Err("StoreUnavailable", "agent_logs")
              /\ run'[c].pc \in FailurePcs
         /\ run[c].pc \in FailurePcs =>
              (run'[c].pc \in FailurePcs /\ run'[c].result = NoResult)]_vars

\* A run raised the audit store's error after its Planner had built a plan.
C8_Witness ==
    \E c \in Calls :
        /\ run[c].pc = "raised"
        /\ run[c].raised = Err("StoreUnavailable", "agent_logs")
        /\ run[c].action_plan # NoRun
        /\ run[c].result = NoResult

\* C9: a run in which a memory write or a publish failed does not return
\* completed.
C9_WriteFailureFatal ==
    \A c \in Calls :
        (\E x \in run[c].swallowed : x.operation \in {"set_memory", "publish"})
            => ~Completed(c)

\* Run c takes the step that fetches the incident, the read works, and the
\* incident is not in the table.
FetchStepOnAbsent(c) ==
    /\ run[c].pc \in FetchPcs
    /\ run'[c].pc # run[c].pc
    /\ faults' = faults
    /\ run[c].incident_id \notin incidents

\* C10: a stage that fetches an incident the table does not hold fails with
\* IncidentNotFound, and a stage that failed so has made no provider call, has
\* built no artifact and has written none to memory.
C10_NotFoundBeforeProvider ==
    /\ [](\A c \in Calls :
            run[c].error.kind = "IncidentNotFound" =>
                /\ run[c].llm_attempts = 0
                /\ run[c].llm_ok = 0
                /\ ArtifactOf(run[c], Last(run[c].started)) = NoRun
                /\ ~StoredBy(c, Last(run[c].started))
                /\ run[c].pc \in FailurePcs)
    /\ [][\A c \in Calls :
            FetchStepOnAbsent(c) =>
                /\ run'[c].error = Err("IncidentNotFound", run[c].incident_id)
                /\ run'[c].pc \in FailurePcs
                /\ memory' = memory]_vars

\* The Dispatcher did not find the incident and the run raised.
C10_Witness ==
    \E c \in Calls :
        /\ run[c].pc = "raised"
        /\ run[c].raised.kind = "IncidentNotFound"
        /\ Last(run[c].started) = "dispatcher"
        /\ run[c].llm_attempts = 0

FailedStep(stage) ==
    CASE stage = "planner" -> "ANALYSIS_FAILED"
      [] stage = "dispatcher" -> "DISPATCH_FAILED"
      [] stage = "analyst" -> "EXPLANATION_FAILED"
\* The *_FAILED row of the stage run c entered last.
FailedEntry(c) ==
    [agent_type |-> AgentOf(Last(run[c].started)),
     step |-> FailedStep(Last(run[c].started)),
     incident_id |-> run[c].incident_id,
     work_orders_created |-> 0]
AuditUnavailable == Err("StoreUnavailable", "agent_logs")

SubmissionsDone(c) ==
    run[c].dispatch_result # NoRun /\ run[c].pc # "dispatcher_work_orders"
CreatedPosts(c) == SelectSeq(run[c].posts, LAMBDA p : p.created)
CompletedEntries(c) ==
    SelectSeq(agent_logs[c], LAMBDA e : e.step = "DISPATCH_COMPLETED")

\* C12: the work orders of a validated DispatchResult are submitted once each
\* in list order whatever submissions fail, the orders the backend holds are
\* those whose submission succeeded, a dispatch that fails after a submission
\* fails on the audit log and not on the submission, and DISPATCH_COMPLETED
\* records the number of submissions that succeeded.
C12_PartialSubmission ==
    \A c \in Calls :
        /\ \A i \in 1..Len(run[c].posts) : run[c].posts[i].index = i
        /\ Len(run[c].posts) <= run[c].work_orders
        /\ SubmissionsDone(c) => Len(run[c].posts) = run[c].work_orders
        /\ {o.index : o \in {b \in backend : b.run = c}}
             = {p.index : p \in Range(CreatedPosts(c))}
        /\ run[c].pc = "dispatcher_work_orders" => run[c].error = NoError
        /\ (run[c].pc = "dispatcher_failed" /\ run[c].posts # << >>)
             => run[c].error = AuditUnavailable
        /\ \A e \in Range(CompletedEntries(c)) :
             e.work_orders_created = Len(CreatedPosts(c))

\* Of two work orders the first submission failed and the second succeeded,
\* and the run completed with one created order recorded.
C12_Witness ==
    \E c \in Calls :
        /\ Completed(c)
        /\ run[c].posts = <<[index |-> 1, created |-> FALSE],
                            [index |-> 2, created |-> TRUE]>>
        /\ Len(CompletedEntries(c)) = 1
        /\ CompletedEntries(c)[1].work_orders_created = 1

\* ------------------------------------------------------ get_incident_status
\* RedisClient.get_list: the whole list, or [] on any exception.
get_list(l, key, ok) == IF ok THEN l[key] ELSE << >>

NoStatus ==
    [has_action_plan |-> FALSE, has_dispatch_result |-> FALSE,
     has_explanation |-> FALSE, conversation_length |-> 0, completed |-> FALSE]

\* A caller invokes get_incident_status(incident_id).
get_incident_status(incident_id) ==
    /\ request.pc = "none"
    /\ request' = [pc |-> "status_plan", incident_id |-> incident_id,
                   action_plan |-> NoRun, dispatch_result |-> NoRun,
                   explanation |-> NoRun, result |-> NoStatus]
    /\ UNCHANGED <<run, memory, lists, agent_logs, incidents, backend, unreliable,
                   provider, faults, expiries, retry>>

\* One of the three awaited agent.get_memory(incident_id, key).
status_get_memory(at, agent_type, key, next) ==
    /\ request.pc = at
    /\ \E ok \in BOOLEAN :
        /\ Outcome("get_memory", ok)
        /\ request' = [request EXCEPT
                         ![key] = get_memory(memory,
                                             full_key(agent_type,
                                                      request.incident_id, key),
                                             ok),
                         !.pc = next]
    /\ UNCHANGED <<run, memory, lists, agent_logs, incidents, backend, unreliable,
                   provider, expiries, retry>>

status_action_plan ==
    status_get_memory("status_plan", "PLANNER", "action_plan", "status_dispatch")
status_dispatch_result ==
    status_get_memory("status_dispatch", "DISPATCHER", "dispatch_result",
                      "status_explanation")
status_explanation ==
    status_get_memory("status_explanation", "ANALYST", "explanation",
                      "status_conversation")

\* A status that takes the plan alone for the sign of a completed incident.
status_conversation_plan_only ==
    /\ request.pc = "status_conversation"
    /\ \E ok \in BOOLEAN :
        /\ Outcome("get_list", ok)
        /\ LET conversation ==
                   get_list(lists, get_conversation_key(request.incident_id), ok)
           IN request' =
                [request EXCEPT
                   !.result =
                     [has_action_plan |-> request.action_plan # NoRun,
                      has_dispatch_result |-> request.dispatch_result # NoRun,
                      has_explanation |-> request.explanation # NoRun,
                      conversation_length |-> Len(conversation),
                      completed |-> request.action_plan # NoRun],
                   !.pc = "status_returned"]
    /\ UNCHANGED <<run, memory, lists, agent_logs, incidents, backend, unreliable,
                   provider, expiries, retry>>

\* conversation = await self.planner.get_conversation_history(incident_id),
\* then the returned dict.
status_conversation ==
    /\ request.pc = "status_conversation"
    /\ \E ok \in BOOLEAN :
        /\ Outcome("get_list", ok)
        /\ LET conversation ==
                   get_list(lists, get_conversation_key(request.incident_id), ok)
           IN request' =
                [request EXCEPT
                   !.result =
                     [has_action_plan |-> request.action_plan # NoRun,
                      has_dispatch_result |-> request.dispatch_result # NoRun,
                      has_explanation |-> request.explanation # NoRun,
                      conversation_length |-> Len(conversation),
                      completed |-> /\ request.action_plan # NoRun
                                    /\ request.dispatch_result # NoRun
                                    /\ request.explanation # NoRun],
                   !.pc = "status_returned"]
    /\ UNCHANGED <<run, memory, lists, agent_logs, incidents, backend, unreliable,
                   provider, expiries, retry>>

\* One call of process_incident and one call of get_incident_status, at any
\* time before, during or after it; the reads of the key-value store can fail.
InitStatus ==
    /\ Stores
    /\ unreliable = {"get_memory", "get_list"}
    /\ provider = {answers_at_once, always_times_out}
    /\ retry = NoRetry
    /\ request = NoRequest

NextStatus ==
    \/ call_once
    \/ Step(1)
    \/ \E i \in IncidentIds : get_incident_status(i)
    \/ status_action_plan
    \/ status_dispatch_result
    \/ status_explanation
    \/ status_conversation

SpecStatus == InitStatus /\ [][NextStatus]_vars

StatusReturned == request.pc = "status_returned"

\* C13: get_incident_status for an incident for which no process_incident call
\* has started reports no artifact, an empty conversation and completed=false.
C13_InitialStatus ==
    (StatusReturned /\ \A c \in Calls : run[c].incident_id # request.incident_id)
        => request.result = NoStatus

\* The status of one incident was reported while a run for another incident
\* had completed and left its artifacts and conversation in the stores.
C13_Witness ==
    /\ StatusReturned
    /\ Completed(1)
    /\ run[1].incident_id # request.incident_id
    /\ request.result = NoStatus
    /\ Len(lists[get_conversation_key(run[1].incident_id)]) = 3

\* ------------------------------------------------------ explanation payloads
\* The provider answers every call at once, with any of the objects.
ConfidenceBehaviours ==
    {[i \in 1..agent_max_retries |->
        [kind |-> "text", fence |-> "json", closed |-> TRUE, body |-> b]] :
        b \in Bodies \cup ConfidenceBodies}

\* One invocation with every store working.
InitConfidence ==
    /\ Stores
    /\ unreliable = {}
    /\ provider = ConfidenceBehaviours
    /\ retry = NoRetry
    /\ request = NoRequest

NextConfidence ==
    \/ call_once
    \/ Step(1)

SpecConfidence == InitConfidence /\ [][NextConfidence]_vars

\* The run is in its Analyst stage and the provider's object has been decoded.
AnalystDecoded(c) ==
    /\ run[c].started # << >>
    /\ Last(run[c].started) = "analyst"
    /\ run[c].data # None

OutOfRange(data) ==
    data \in ConfidenceBodies /\ (confidence(data) < 0 \/ confidence(data) > 100)

StageIndex(agent_type) ==
    CASE agent_type = "PLANNER" -> 1
      [] agent_type = "DISPATCHER" -> 2
      [] agent_type = "ANALYST" -> 3
SuccessStep == <<"PLAN_CREATED", "DISPATCH_COMPLETED", "EXPLANATION_CREATED">>

\* The stages entered by run c and the entries it logged follow the stage order.
StagesInOrder(c) ==
    LET log == agent_logs[c]
        entered == run[c].started
    IN /\ Len(entered) <= Len(StageOrder)
       /\ \A k \in 1..Len(entered) : entered[k] = StageOrder[k]
       /\ \A j \in 1..Len(log) :
            /\ StageIndex(log[j].agent_type) <= Len(entered)
            /\ \A i \in 1..(j - 1) :
                 StageIndex(log[i].agent_type) <= StageIndex(log[j].agent_type)
       /\ \A k \in 2..Len(entered) :
            /\ ArtifactOf(run[c], StageOrder[k - 1]) # NoRun
            /\ \E i \in 1..Len(log) :
                 /\ log[i].step = SuccessStep[k - 1]
                 /\ \A j \in 1..Len(log) :
                      StageIndex(log[j].agent_type) >= k => i < j
       /\ Completed(c)
            => /\ entered = StageOrder
               /\ Last(log).step = SuccessStep[3]

\* Run c has completed or failed.
Ended(c) == Finished(c) \/ StageRaised(c)

\* No stage of an ended run acts: nothing is logged, stored, said or submitted.
NoStageAction(c) ==
    /\ agent_logs'[c] = agent_logs[c]
    /\ run'[c].started = run[c].started
    /\ memory' = memory
    /\ lists' = lists
    /\ backend' = backend

\* C15: within one process_incident run the stages are entered in the order
\* Planner, Dispatcher, Analyst, none skipped and none twice; the Dispatcher
\* acts only after the Planner has logged PLAN_CREATED, the Analyst only after
\* the Dispatcher has logged DISPATCH_COMPLETED; and once the run has
\* completed or failed no stage action of the run occurs.
C15_StrictStageOrder ==
    /\ [](\A c \in Calls : StagesInOrder(c))
    /\ [][\A c \in Calls : Ended(c) => NoStageAction(c)]_vars

\* A run went through the three stages and completed, and the incident was
\* removed afterwards.
C15_Witness ==
    /\ Completed(1)
    /\ run[1].started = StageOrder
    /\ Len(agent_logs[1]) >= 3
    /\ run[1].incident_id \notin incidents

\* --------------------------------------------------------- pattern analysis
MaxIncidents == 10     \* rows returned to one pattern analysis
MaxAnalyses == 1       \* pattern analyses that insert a row in one behaviour

\* get_recent_incidents(zone_id=zone_id, limit=50)
recent_limit == 50

IncidentTypes == {"type_a", "type_b"}
Zones == {"z1", "z2"}

\* What get_recent_incidents returns, described by the counts that the three
\* loops of _identify_patterns make of it: `n` rows, of which `critical` and
\* `high` have these severities, `type_a` have the first type and the others
\* the second, `z1` and `z2` lie in these zones and the others have no zone.
\* zone_order is the order in which the zones come up in the rows, which is
\* the order of the keys of the dict zone_counts.
Rows(n, critical, high, type_a, z1, z2) ==
    [total |-> n,
     type_counts |-> [t \in IncidentTypes |->
                        IF t = "type_a" THEN type_a ELSE n - type_a],
     severity_counts |-> [CRITICAL |-> critical, HIGH |-> high,
                          MEDIUM |-> n - critical - high],
     zone_counts |-> [z \in Zones |-> IF z = "z1" THEN z1 ELSE z2],
     zone_order |-> (IF z1 > 0 THEN <<"z1">> ELSE << >>)
                    \o (IF z2 > 0 THEN <<"z2">> ELSE << >>)]

\* max(counts.items(), key=lambda x: x[1])[1]
MaxCount(counts) ==
    CHOOSE m \in {counts[k] : k \in DOMAIN counts} :
        \A k \in DOMAIN counts : counts[k] <= m

\* max(zone_counts.items(), key=lambda x: x[1]): the first of the items with
\* the largest count, in the order of the keys.
max_by_count(order, counts) ==
    LET m == CHOOSE v \in {counts[order[i]] : i \in 1..Len(order)} :
                 \A i \in 1..Len(order) : counts[order[i]] <= v
        first == CHOOSE i \in 1..Len(order) :
                     /\ counts[order[i]] = m
                     /\ \A j \in 1..(i - 1) : counts[order[j]] < m
    IN [key |-> order[first], count |-> m]

\* A hotspot measured against the incidents that have a zone.
_identify_patterns_among_zoned(found) ==
    LET critical_count == found.severity_counts.CRITICAL
                          + found.severity_counts.HIGH
        zoned == found.zone_counts["z1"] + found.zone_counts["z2"]
    IN (IF found.total > 0
        THEN <<[type |-> "incident_frequency",
                count |-> MaxCount(found.type_counts)]>>
        ELSE << >>)
       \o (IF found.total > 0 /\ 10 * critical_count > 3 * found.total
           THEN <<[type |-> "high_severity_trend", count |-> critical_count]>>
           ELSE << >>)
       \o (IF found.zone_order # << >>
           THEN LET hotspot == max_by_count(found.zone_order, found.zone_counts)
                IN IF 10 * hotspot.count > 4 * zoned
                   THEN <<[type |-> "geographic_hotspot", zone_id |-> hotspot.key,
                           count |-> hotspot.count]>>
                   ELSE << >>
           ELSE << >>)

\* A severity pattern that is also emitted at exactly 30%.
_identify_patterns_inclusive(found) ==
    LET critical_count == found.severity_counts.CRITICAL
                          + found.severity_counts.HIGH
    IN (IF found.total > 0
        THEN <<[type |-> "incident_frequency",
                count |-> MaxCount(found.type_counts)]>>
        ELSE << >>)
       \o (IF found.total > 0 /\ 10 * critical_count >= 3 * found.total
           THEN <<[type |-> "high_severity_trend", count |-> critical_count]>>
           ELSE << >>)
       \o (IF found.zone_order # << >>
           THEN LET hotspot == max_by_count(found.zone_order, found.zone_counts)
                IN IF 10 * hotspot.count > 4 * found.total
                   THEN <<[type |-> "geographic_hotspot", zone_id |-> hotspot.key,
                           count |-> hotspot.count]>>
                   ELSE << >>
           ELSE << >>)

\* AnalystAgent._identify_patterns: the pattern of the most common type, the
\* severity pattern if critical_count > len(found) * 0.3 and the hotspot
\* pattern if the largest zone count > len(found) * 0.4, in this order.
\* The products are doubles; for the row counts a query can return (at most
\* 50) comparing a count with them gives what the comparison of 10 * count
\* with 3 * len and 4 * len gives.  The hotspot pattern is built only if
\* zone_counts is not empty; the name of the most common type is left out.
_identify_patterns(found) ==
    LET critical_count == found.severity_counts.CRITICAL
                          + found.severity_counts.HIGH
    IN (IF found.total > 0
        THEN <<[type |-> "incident_frequency",
                count |-> MaxCount(found.type_counts)]>>
        ELSE << >>)
       \o (IF found.total > 0 /\ 10 * critical_count > 3 * found.total
           THEN <<[type |-> "high_severity_trend", count |-> critical_count]>>
           ELSE << >>)
       \o (IF found.zone_order # << >>
           THEN LET hotspot == max_by_count(found.zone_order, found.zone_counts)
                IN IF 10 * hotspot.count > 4 * found.total
                   THEN <<[type |-> "geographic_hotspot", zone_id |-> hotspot.key,
                           count |-> hotspot.count]>>
                   ELSE << >>
           ELSE << >>)

\* AnalystAgent._generate_insights: one sentence per pattern, joined.
_generate_insights(patterns) ==
    IF patterns = << >> THEN <<"no_significant_patterns">>
    ELSE [i \in 1..Len(patterns) |-> patterns[i].type]

RECURSIVE _create_recommendations_from(_, _)
_create_recommendations_from(patterns, i) ==
    IF i > Len(patterns) THEN << >>
    ELSE (CASE patterns[i].type = "incident_frequency" ->
                 <<"preventive_maintenance">>
            [] patterns[i].type = "high_severity_trend" ->
                 <<"increase_monitoring", "review_protocols">>
            [] patterns[i].type = "geographic_hotspot" ->
                 <<"assess_infrastructure", "deploy_sensors">>)
         \o _create_recommendations_from(patterns, i + 1)

\* A recommendation list with one entry for each pattern.
_create_recommendations_single(patterns) ==
    IF patterns = << >> THEN <<"continue_monitoring">>
    ELSE [i \in 1..Len(patterns) |->
            CASE patterns[i].type = "incident_frequency" -> "preventive_maintenance"
              [] patterns[i].type = "high_severity_trend" -> "increase_monitoring"
              [] patterns[i].type = "geographic_hotspot" -> "assess_infrastructure"]

\* AnalystAgent._create_recommendations
_create_recommendations(patterns) ==
    LET recommendations == _create_recommendations_from(patterns, 1)
    IN IF recommendations = << >> THEN <<"continue_monitoring">>
       ELSE recommendations

\* The return value for no incident.
InsufficientData ==
    [patterns |-> << >>, insights |-> <<"insufficient_data">>,
     recommendations |-> << >>]

\* No report.
NoReport == [patterns |-> << >>, insights |-> << >>, recommendations |-> << >>]

\* A caller may make a request when none is in progress.
RequestIdle ==
    request.pc \in {"none", "status_returned", "patterns_returned",
                    "patterns_raised", "logs_returned", "logs_raised"}

\* A caller invokes analyze_patterns(zone_id).
analyze_patterns(zone_id) ==
    /\ RequestIdle
    /\ Len(agent_logs[NoRun]) < MaxAnalyses
    /\ request' = [pc |-> "patterns_fetch", zone_id |-> zone_id,
                   found |-> Rows(0, 0, 0, 0, 0, 0), result |-> NoReport]
    /\ UNCHANGED <<run, memory, lists, agent_logs, incidents, backend, unreliable,
                   provider, faults, expiries, retry>>

\* An analysis without the early return: the empty set is reported and logged
\* like any other.
analyze_patterns_fetch_unguarded(incidents_found) ==
    /\ request.pc = "patterns_fetch"
    /\ request.zone_id # None
         => incidents_found.zone_counts[request.zone_id] = incidents_found.total
    /\ \E ok \in BOOLEAN :
        /\ Outcome("get_recent_incidents", ok)
        /\ request' =
             IF ~ok THEN [request EXCEPT !.pc = "patterns_raised"]
             ELSE LET patterns == _identify_patterns(incidents_found) IN
                  [request EXCEPT
                     !.pc = "patterns_log",
                     !.found = incidents_found,
                     !.result =
                        [patterns |-> patterns,
                         insights |-> _generate_insights(patterns),
                         recommendations |-> _create_recommendations(patterns),
                         incidents_analyzed |-> incidents_found.total]]
    /\ UNCHANGED <<run, memory, lists, agent_logs, incidents, backend, unreliable,
                   provider, expiries, retry>>

\* incidents = await db.get_recent_incidents(zone_id=zone_id, limit=50), the
\* early return for no incident, and the report built from the patterns.
\* With a zone filter every row returned lies in that zone.
analyze_patterns_fetch(incidents_found) ==
    /\ request.pc = "patterns_fetch"
    /\ request.zone_id # None
         => incidents_found.zone_counts[request.zone_id] = incidents_found.total
    /\ \E ok \in BOOLEAN :
        /\ Outcome("get_recent_incidents", ok)
        /\ request' =
             IF ~ok THEN [request EXCEPT !.pc = "patterns_raised"]
             ELSE IF incidents_found.total = 0
             THEN [request EXCEPT !.pc = "patterns_returned",
                                  !.result = InsufficientData]
             ELSE LET patterns == _identify_patterns(incidents_found) IN
                  [request EXCEPT
                     !.pc = "patterns_log",
                     !.found = incidents_found,
                     !.result =
                        [patterns |-> patterns,
                         insights |-> _generate_insights(patterns),
                         recommendations |-> _create_recommendations(patterns),
                         incidents_analyzed |-> incidents_found.total]]
    /\ UNCHANGED <<run, memory, lists, agent_logs, incidents, backend, unreliable,
                   provider, expiries, retry>>

\* await self.log_reasoning(step="PATTERN_ANALYSIS", data=result); return
\* result.  A failure of the insert is raised to the caller.
analyze_patterns_log ==
    /\ request.pc = "patterns_log"
    /\ \E ok \in BOOLEAN :
        /\ Outcome("log_agent_activity", ok)
        /\ IF ok
           THEN /\ agent_logs' = log_agent_activity(agent_logs, "ANALYST",
                                                    "PATTERN_ANALYSIS", 0, None,
                                                    NoRun)
                /\ request' = [request EXCEPT !.pc = "patterns_returned"]
           ELSE /\ agent_logs' = agent_logs
                /\ request' = [request EXCEPT !.pc = "patterns_raised",
                                              !.found = Rows(0, 0, 0, 0, 0, 0),
                                              !.result = NoReport]
    /\ UNCHANGED <<run, memory, lists, incidents, backend, unreliable, provider,
                   expiries, retry>>

\* ---------------------------------------------------------------- audit log
Reverse(seq) == [i \in 1..Len(seq) |-> seq[Len(seq) + 1 - i]]

\* Database.get_agent_logs with an incident filter: SELECT ... WHERE
\* incident_id = %s [AND agent_type = %s] ORDER BY timestamp DESC LIMIT %s.
\* The rows of one incident are those of the runs for it, which the
\* specifications that read the log start one after the other.
select_agent_logs(log, agent_type, incident_id, limit) ==
    LET matching ==
            SelectSeq(log[1] \o log[2],
                      LAMBDA e : /\ e.incident_id = incident_id
                                 /\ agent_type = None \/ e.agent_type = agent_type)
        newest == Reverse(matching)
    IN SubSeq(newest, 1, IF limit < Len(newest) THEN limit ELSE Len(newest))

\* A caller invokes get_agent_logs(incident_id, agent_type, limit): one query,
\* whose failure is raised to the caller.
get_agent_logs(incident_id, agent_type, limit) ==
    /\ RequestIdle
    /\ \E ok \in BOOLEAN :
        /\ Outcome("get_agent_logs", ok)
        /\ request' =
             IF ok
             THEN [pc |-> "logs_returned",
                   result |-> select_agent_logs(agent_logs, agent_type,
                                                incident_id, limit)]
             ELSE [pc |-> "logs_raised", result |-> << >>]
    /\ UNCHANGED <<run, memory, lists, agent_logs, incidents, backend, unreliable,
                   provider, expiries, retry>>

\* The incident sets the pattern analysis finds in this specification.
AuditRows ==
    {Rows(0, 0, 0, 0, 0, 0), Rows(1, 1, 0, 1, 1, 0), Rows(2, 0, 1, 1, 0, 0)}

\* One call of process_incident, interleaved with calls of analyze_patterns,
\* get_incident_status and get_agent_logs; the inserts and the queries can fail.
InitAudit ==
    /\ Stores
    /\ unreliable = {"log_agent_activity", "get_recent_incidents",
                     "get_agent_logs"}
    /\ provider = {answers_at_once, always_times_out}
    /\ retry = NoRetry
    /\ request = NoRequest

NextAudit ==
    \/ call_once
    \/ Step(1)
    \/ \E zone_id \in {None} \cup Zones : analyze_patterns(zone_id)
    \/ \E found \in AuditRows : analyze_patterns_fetch(found)
    \/ analyze_patterns_log
    \/ \E i \in IncidentIds : get_incident_status(i)
    \/ status_action_plan
    \/ status_dispatch_result
    \/ status_explanation
    \/ status_conversation
    \/ \E i \in IncidentIds, a \in {None, "DISPATCHER"}, limit \in {1, 100} :
        get_agent_logs(i, a, limit)

SpecAudit == InitAudit /\ [][NextAudit]_vars

\* `earlier` is the beginning of `later`.
IsPrefix(earlier, later) ==
    /\ Len(earlier) <= Len(later)
    /\ SubSeq(later, 1, Len(earlier)) = earlier

\* C16: the audit log is append-only: every step of process_incident,
\* analyze_patterns, get_incident_status and get_agent_logs leaves every row
\* the log held in place and unchanged, and inserts at most one row, after the
\* rows its writer had inserted before.
C16_AppendOnly ==
    [][/\ \A w \in Writers :
            /\ IsPrefix(agent_logs[w], agent_logs'[w])
            /\ Len(agent_logs'[w]) <= Len(agent_logs[w]) + 1
       /\ Cardinality({w \in Writers : agent_logs'[w] # agent_logs[w]}) <= 1]_vars

\* A run and a pattern analysis have both inserted rows, and the rows of the
\* run's incident have been read back, newest first.
C16_Witness ==
    /\ Len(agent_logs[NoRun]) = 1
    /\ Completed(1)
    /\ request.pc = "logs_returned"
    /\ Len(request.result) >= 2
    /\ request.result[1] = Last(agent_logs[1])

\* ------------------------------------------------------------- conversation
MaxAppends == 2        \* add_to_conversation calls in one behaviour

ConversationKeys == {get_conversation_key(i) : i \in IncidentIds}

\* The messages are numbered in the order of the calls that append them.
FirstMessages(n) == [j \in 1..n |-> j]

\* A caller may add to or read a conversation when no such call is in progress.
ConversationIdle ==
    request.pc \in {"none", "append_returned", "conversation_returned"}

\* An agent calls add_to_conversation(incident_id, message).
add_to_conversation(incident_id) ==
    /\ ConversationIdle
    /\ request.calls < MaxAppends
    /\ request' = [request EXCEPT !.pc = "append_rpush",
                                  !.key = get_conversation_key(incident_id),
                                  !.calls = @ + 1,
                                  !.message = request.next,
                                  !.next = @ + 1]
    /\ UNCHANGED <<run, memory, lists, agent_logs, incidents, backend, unreliable,
                   provider, faults, expiries, retry>>

\* await self.client.rpush(key, serialized); an exception ends the call, which
\* returns False.
append_to_list_rpush ==
    /\ request.pc = "append_rpush"
    /\ \E ok \in BOOLEAN :
        /\ Outcome("rpush", ok)
        /\ IF ok
           THEN /\ lists' = [lists EXCEPT ![request.key] = rpush(@, request.message)]
                /\ request' = [request EXCEPT
                                 !.pc = "append_ltrim",
                                 !.appended[request.key] = Append(@, request.message)]
           ELSE /\ lists' = lists
                /\ request' = [request EXCEPT !.pc = "append_returned",
                                              !.returned = FALSE]
    /\ UNCHANGED <<run, memory, agent_logs, incidents, backend, unreliable,
                   provider, expiries, retry>>

\* await self.client.ltrim(key, -max_length, -1); return True, or False on an
\* exception.
append_to_list_ltrim ==
    /\ request.pc = "append_ltrim"
    /\ \E ok \in BOOLEAN :
        /\ Outcome("ltrim", ok)
        /\ lists' = IF ok
                    THEN [lists EXCEPT ![request.key] = ltrim(@, max_length)]
                    ELSE lists
        /\ request' = [request EXCEPT !.pc = "append_returned", !.returned = ok]
    /\ UNCHANGED <<run, memory, agent_logs, incidents, backend, unreliable,
                   provider, expiries, retry>>

\* A caller invokes get_conversation_history(incident_id).
get_conversation_history(incident_id) ==
    /\ ConversationIdle
    /\ \E ok \in BOOLEAN :
        /\ Outcome("get_list", ok)
        /\ request' = [request EXCEPT
                         !.pc = "conversation_returned",
                         !.key = get_conversation_key(incident_id),
                         !.history = get_list(lists,
                                              get_conversation_key(incident_id),
                                              ok)]
    /\ UNCHANGED <<run, memory, lists, agent_logs, incidents, backend, unreliable,
                   provider, expiries, retry>>

\* The conversation of the first incident holds the messages of `n` earlier
\* calls, with n none, one less than the maximum length, or the maximum
\* length; a call of add_to_conversation or get_conversation_history is made
\* when the one before has returned, and the two commands of an append can
\* fail.
InitConversation ==
    /\ run = [c \in Calls |-> IdleRun]
    /\ memory = [k \in AllFullKeys |-> NoRun]
    /\ \E n \in {0, max_length - 1, max_length} :
        /\ lists = [k \in ConversationKeys |->
                      IF k = get_conversation_key("i1") THEN FirstMessages(n)
                      ELSE << >>]
        /\ request = [pc |-> "none", key |-> None, calls |-> 0, message |-> 0,
                      next |-> n + 1, returned |-> FALSE, history |-> << >>,
                      appended |-> [k \in ConversationKeys |->
                                      IF k = get_conversation_key("i1")
                                      THEN FirstMessages(n) ELSE << >>]]
    /\ agent_logs = [c \in Writers |-> << >>]
    /\ incidents = StoredIncidents
    /\ backend = {}
    /\ faults = 0
    /\ expiries = 0
    /\ unreliable = {"rpush", "ltrim"}
    /\ provider = {answers_at_once}
    /\ retry = NoRetry

NextConversation ==
    \/ \E i \in IncidentIds : add_to_conversation(i)
    \/ append_to_list_rpush
    \/ append_to_list_ltrim
    \/ \E i \in IncidentIds : get_conversation_history(i)

SpecConversation == InitConversation /\ [][NextConversation]_vars

\* C17: after any sequence of completed add_to_conversation calls for an
\* incident, get_conversation_history returns at most max_length messages, and
\* they are the most recently appended ones in the order they were appended.
C17_MostRecentKept ==
    request.pc = "conversation_returned"
        => /\ Len(request.history) <= max_length
           /\ request.history = ltrim(request.appended[request.key], max_length)

\* ------------------------------------------------------- pattern thresholds
\* The incident sets of up to MaxIncidents rows, with one type or two: every
\* split of the rows into CRITICAL, HIGH and other severities, with no row or
\* every row in the first zone; and every split of the rows into the two
\* zones and no zone, with no row or every row CRITICAL, and with the second
\* zone coming up first in the rows; and as many rows as the query returns at
\* most, with 30% of them CRITICAL, one less and one more.
RecentIncidents ==
    UNION {UNION {{Rows(n, critical, high, type_a, z1, 0) :
                      high \in 0..(n - critical),
                      type_a \in {n, (n + 1) \div 2},
                      z1 \in {0, n}} :
                  critical \in 0..n} :
           n \in 0..MaxIncidents}
    \cup
    UNION {UNION {{Rows(n, critical, 0, type_a, z1, z2) :
                      z2 \in 0..(n - z1),
                      type_a \in {n, (n + 1) \div 2},
                      critical \in {0, n}} :
                  z1 \in 0..n} :
           n \in 0..MaxIncidents}
    \cup
    UNION {{[Rows(n, 0, 0, n, z1, z2) EXCEPT !.zone_order = <<"z2", "z1">>] :
               z2 \in 1..(n - z1)} :
           n \in 0..MaxIncidents, z1 \in 1..MaxIncidents}
    \cup
    {Rows(recent_limit, critical, 0, recent_limit, 0, 0) :
        critical \in ((3 * recent_limit) \div 10 - 1)..((3 * recent_limit) \div 10 + 1)}

\* Calls of analyze_patterns, one after the other, for any of the incident
\* sets; the query and the insert of the audit row can fail.
InitPatterns ==
    /\ Stores
    /\ unreliable = {"get_recent_incidents", "log_agent_activity"}
    /\ provider = {answers_at_once}
    /\ retry = NoRetry
    /\ request = NoRequest

NextPatterns ==
    \/ \E zone_id \in {None, "z1"} : analyze_patterns(zone_id)
    \/ \E found \in RecentIncidents : analyze_patterns_fetch(found)
    \/ analyze_patterns_log

SpecPatterns == InitPatterns /\ [][NextPatterns]_vars

\* analyze_patterns has built its report from a non-empty incident set.
Reported ==
    /\ request.pc \in {"patterns_log", "patterns_returned"}
    /\ request.found.total > 0

PatternTypes(report) == {report.patterns[i].type : i \in 1..Len(report.patterns)}

\* The number of rows of severity CRITICAL or HIGH.
HighSeverity(found) == found.severity_counts.CRITICAL + found.severity_counts.HIGH

\* C18: for every non-empty incident set, the report of analyze_patterns has
\* the severity pattern if and only if the incidents of severity CRITICAL or
\* HIGH are strictly more than 30% of all incidents of the set.
C18_SeverityThreshold ==
    Reported
        => ("high_severity_trend" \in PatternTypes(request.result)
              <=> 100 * HighSeverity(request.found) > 30 * request.found.total)

\* A report for ten incidents of which three are CRITICAL or HIGH, exactly
\* 30%, was returned without the severity pattern.
C18_Witness ==
    /\ request.pc = "patterns_returned"
    /\ request.found.total = 10
    /\ request.found.severity_counts.CRITICAL = 1
    /\ request.found.severity_counts.HIGH = 2
    /\ "high_severity_trend" \notin PatternTypes(request.result)
    /\ Len(agent_logs[NoRun]) = 1

\* ---------------------------------------------------------- unit candidates
MaxDistance == 4000    \* metres between the incident and the first unit

\* Coordinates are kept in whole metres east (x) and north (y) of the first
\* simulated unit: what the code gets from the degrees by the factors 111000
\* and 111000 * cos(latitude).  An incident has such a location, none, or
\* one whose coordinates cannot be read (they raise in _calculate_distance).
NoLocation == [kind |-> "none", x |-> 0, y |-> 0]
Unreadable == [kind |-> "unreadable", x |-> 0, y |-> 0]
Point(x, y) == [kind |-> "Point", x |-> x, y |-> y]

\* DispatcherAgent._get_simulated_units: four units at fixed coordinates.
_get_simulated_units ==
    <<[unit_id |-> "UNIT-001", location |-> Point(0, 0)],
      [unit_id |-> "UNIT-002", location |-> Point(-877, 1110)],
      [unit_id |-> "UNIT-003", location |-> Point(877, -1110)],
      [unit_id |-> "UNIT-004", location |-> Point(-1754, 2220)]>>

Abs(v) == IF v < 0 THEN -v ELSE v

\* The whole part of math.sqrt(n), found between lo and hi.
RECURSIVE sqrt_between(_, _, _)
sqrt_between(n, lo, hi) ==
    IF hi - lo <= 1 THEN lo
    ELSE LET mid == (lo + hi) \div 2
         IN IF mid * mid <= n THEN sqrt_between(n, mid, hi)
            ELSE sqrt_between(n, lo, mid)

\* DispatcherAgent._calculate_distance, in whole metres: sqrt(dx**2 + dy**2),
\* or 1000.0 when reading the coordinates raises.
_calculate_distance(location1, location2) ==
    IF location1.kind = "unreadable" \/ location2.kind = "unreadable" THEN 1000
    ELSE LET dx == location1.x - location2.x
             dy == location1.y - location2.y
         IN sqrt_between(dx * dx + dy * dy, 0, Abs(dx) + Abs(dy) + 1)

\* speed_mps = 30000 / 60
speed_mps == 30000 \div 60

\* A travel time without the minimum.
_estimate_travel_time_unfloored(distance_meters) ==
    distance_meters \div speed_mps

\* DispatcherAgent._estimate_travel_time: max(5, int(distance / speed_mps))
_estimate_travel_time(distance_meters) ==
    LET travel_time == distance_meters \div speed_mps
    IN IF travel_time > 5 THEN travel_time ELSE 5

\* units.sort(key=lambda u: u.get("distance_meters", float("inf"))): a stable
\* sort.
sort_by_distance(units) ==
    LET before(i, j) ==
            \/ units[i].distance_meters < units[j].distance_meters
            \/ units[i].distance_meters = units[j].distance_meters /\ i < j
        place(i) == 1 + Cardinality({j \in 1..Len(units) : before(j, i)})
    IN [k \in 1..Len(units) |->
          units[CHOOSE i \in 1..Len(units) : place(i) = k]]

\* DispatcherAgent._find_available_units(incident): without a location the
\* simulated units as they are; otherwise each with its distance and its
\* estimated arrival, nearest first.
_find_available_units(incident_location) ==
    /\ request.pc = "none"
    /\ request' =
         [pc |-> "units_found", location |-> incident_location,
          units |->
            IF incident_location.kind = "none" THEN _get_simulated_units
            ELSE LET units == _get_simulated_units
                     distance(i) == _calculate_distance(incident_location,
                                                        units[i].location)
                 IN sort_by_distance(
                      [i \in 1..Len(units) |->
                         [unit_id |-> units[i].unit_id,
                          location |-> units[i].location,
                          distance_meters |-> distance(i),
                          estimated_arrival_minutes |->
                              _estimate_travel_time(distance(i))]])]
    /\ UNCHANGED <<run, memory, lists, agent_logs, incidents, backend, unreliable,
                   provider, faults, expiries, retry>>

\* The incident lies where one of the units is, or up to MaxDistance metres
\* north of the first unit, or has no location or an unreadable one.
IncidentLocations ==
    {NoLocation, Unreadable}
    \cup {_get_simulated_units[i].location : i \in 1..Len(_get_simulated_units)}
    \cup {Point(0, y) : y \in 0..MaxDistance}

InitUnits ==
    /\ Stores
    /\ unreliable = {}
    /\ provider = {answers_at_once}
    /\ retry = NoRetry
    /\ request = NoRequest

NextUnits ==
    \E incident_location \in IncidentLocations :
        _find_available_units(incident_location)

SpecUnits == InitUnits /\ [][NextUnits]_vars

UnitsFound == request.pc = "units_found"
Candidates == {request.units[i] : i \in 1..Len(request.units)}
HasEta(unit) == "estimated_arrival_minutes" \in DOMAIN unit

\* C19: every estimated arrival computed for a unit candidate is at least 5
\* minutes; a candidate at the coordinates of the incident gets distance 0 and
\* an estimate of exactly 5; and where distance / 500 exceeds 5 the estimate is
\* its whole part.
C19_EtaFloor ==
    UnitsFound =>
        \A unit \in Candidates :
            HasEta(unit) =>
                /\ unit.estimated_arrival_minutes >= 5
                /\ unit.location = request.location
                     => /\ unit.distance_meters = 0
                        /\ unit.estimated_arrival_minutes = 5
                /\ unit.distance_meters \div 500 > 5
                     => unit.estimated_arrival_minutes = unit.distance_meters \div 500

\* The incident lies where the fourth unit is: that unit comes first with
\* distance 0 and an estimate of 5 minutes, and the third unit, 4243 metres
\* away, comes last with an estimate of 8 minutes.
C19_Witness ==
    /\ UnitsFound
    /\ request.location = _get_simulated_units[4].location
    /\ request.units[1].unit_id = "UNIT-004"
    /\ request.units[1].distance_meters = 0
    /\ request.units[1].estimated_arrival_minutes = 5
    /\ request.units[4].unit_id = "UNIT-003"
    /\ request.units[4].distance_meters = 4243
    /\ request.units[4].estimated_arrival_minutes = 8

\* ------------------------------------------------------------ short circuit
\* Run c has left nothing behind: no event, no audit row, no provider call, no
\* work order, no memory entry and no conversation message.
NoTrace(c) ==
    /\ run[c].published = << >>
    /\ \A x \in run[c].swallowed : x.operation = "get_memory"
    /\ agent_logs[c] = << >>
    /\ run[c].started = << >>
    /\ run[c].llm_attempts = 0
    /\ run[c].posts = << >>
    /\ \A order \in backend : order.run # c
    /\ \A k \in AllFullKeys : memory[k] # c
    /\ \A k \in DOMAIN lists : \A message \in Range(lists[k]) : message.run # c

\* Run c takes a step of an unforced call up to its return of
\* already_processed: the call itself or the idempotency check.
ShortCircuitStep(c) ==
    /\ run'[c] # run[c]
    /\ ~run'[c].force_reprocess
    /\ \/ run'[c].pc = "check"
       \/ ShortCircuited(c)'

\* C20: an unforced process_incident call that returns already_processed has
\* published no event, appended no audit row, made no provider call and
\* submitted no work order, and none of its steps changes the memory, the
\* conversation lists, the audit log or the orders at the backend.
C20_ShortCircuitFrame ==
    /\ [](\A c \in Calls : ShortCircuited(c) => NoTrace(c))
    /\ [][\A c \in Calls :
            ShortCircuitStep(c)
                => /\ memory' = memory
                   /\ lists' = lists
                   /\ agent_logs' = agent_logs
                   /\ backend' = backend]_vars

\* The second call returned already_processed while the artifacts, the
\* conversation and the audit rows of the first were in place.
C20_Witness ==
    /\ Completed(1)
    /\ ShortCircuited(2)
    /\ ~run[2].force_reprocess
    /\ StoredBy(1, "planner")
    /\ Len(lists[get_conversation_key(run[2].incident_id)]) = 3
    /\ Len(agent_logs[1]) > 0


\* ------------------------------------------------- the race of two callers
ReadAbsent(c) ==
    /\ run[c].pc \notin {"idle", "check"}
    /\ ~run[c].force_reprocess
    /\ run[c].existing_plan = NoRun
RanPlanner(c) ==
    /\ "workflow_started" \in Range(EventNames(c))
    /\ "planner" \in Range(run[c].started)
    /\ \E k \in 1..Len(agent_logs[c]) :
        /\ agent_logs[c][k].step = "ANALYSIS_START"
        /\ agent_logs[c][k].incident_id = run[c].incident_id

\* C21: the idempotency check is no lock.  Of two concurrent unforced calls,
\* each one that read an absent plan at its check goes on whatever the other
\* is doing: it is not short-circuited, it publishes workflow_started and logs
\* ANALYSIS_START, and when its Planner has built a plan it has called the
\* provider.  So the interleaving in which both calls for one incident do so
\* is reachable (C21_Witness).
C21_RaceReachable ==
    \A c \in Calls :
        ReadAbsent(c) =>
            /\ ~ShortCircuited(c)
            /\ run[c].pc \notin {"publish_started", "planner_log_start"} =>
                    RanPlanner(c)
            /\ run[c].pc = "planner_store" => run[c].llm_ok = 1

\* Both calls are for incident i1, both read an absent plan, both published
\* workflow_started and logged ANALYSIS_START, and both have had their
\* provider call answered: neither has stored its plan yet.
C21_Witness ==
    /\ \A c \in Calls :
        /\ run[c].incident_id = "i1"
        /\ ReadAbsent(c)
        /\ RanPlanner(c)
        /\ run[c].pc = "planner_store"
        /\ run[c].llm_attempts = 1
    /\ memory[full_key("PLANNER", "i1", "action_plan")] = NoRun

\* ------------------------------------------------ the plan under Dispatcher
\* DISPATCH_START is the newest row of the run and the next step is the
\* Dispatcher's fetch: the Dispatcher has just begun.
DispatcherBegun(c) ==
    /\ run[c].pc = "dispatcher_fetch"
    /\ Last(run[c].started) = "dispatcher"
    /\ agent_logs[c] # << >>
    /\ Last(agent_logs[c]).step = "DISPATCH_START"

\* C22: at the moment the Dispatcher of a run begins (DISPATCH_START has been
\* logged), the plan made by the run's Planner is in memory under the plan key
\* of the incident.
C22_PlanStoredBeforeDispatch ==
    \A c \in Calls :
        DispatcherBegun(c) =>
            /\ run[c].action_plan # NoRun
            /\ memory[full_key("PLANNER", run[c].incident_id, "action_plan")]
                   = run[c].action_plan

\* ------------------------------------------------------ what is retried
TransientKinds == {"timeout", "transport"}

\* C23: call_llm_with_retry makes another attempt only after an attempt that
\* failed by timeout or by transport failure: every attempt but the last one
\* made failed in one of these two ways.
C23_OnlyTransientRetried ==
    retry.state = "done" =>
        \A k \in 1..(retry.returned.attempts - 1) :
            retry.outcomes[k].kind \in TransientKinds

\* ------------------------------------------------------------ the backoff
\* C24: the waits of a call_llm_with_retry are 1, 2, 4, ... seconds: wait
\* number i, made after failed attempt i - 1 counted from 0, lasts 2^(i-1)
\* seconds.  A call that succeeds at attempt k has waited k - 1 times, none
\* after the success, and a call that exhausts its n attempts has waited
\* n - 1 times, none after the last failure.
C24_BackoffSchedule ==
    retry.state = "done" =>
        LET n == effective_max_retries(retry.max_retries)
            ret == retry.returned
        IN /\ \A i \in 1..Len(ret.sleeps) : ret.sleeps[i] = 2 ^ (i - 1)
           /\ ret.ok => Len(ret.sleeps) = ret.attempts - 1
           /\ ~ret.ok => ret.attempts = n /\ Len(ret.sleeps) = n - 1

\* A call with max_retries = 3 failed at every attempt and waited twice, for
\* one and for two seconds.
C24_Witness ==
    /\ retry.state = "done"
    /\ retry.max_retries = 3
    /\ ~retry.returned.ok
    /\ retry.returned.attempts = 3
    /\ retry.returned.sleeps = <<1, 2>>

\* ------------------------------------------------- the Planner's audit rows
StepsOf(c, agent_type) ==
    LET rows == SelectSeq(agent_logs[c], LAMBDA e : e.agent_type = agent_type)
    IN [k \in 1..Len(rows) |-> rows[k].step]
PlannerNotFound(c) ==
    /\ run[c].pc \in {"publish_failed", "raised"}
    /\ Last(run[c].started) = "planner"
    /\ run[c].stage_error.kind = "IncidentNotFound"
PlannerSucceeded(c) ==
    \/ run[c].pc = "publish_plan_created"
    \/ "dispatcher" \in Range(run[c].started)

\* C25: the Planner's first audit row is ANALYSIS_START; a Planner that failed
\* because the incident is absent has logged ANALYSIS_START and then
\* ANALYSIS_FAILED and no CONTEXT_GATHERED; a Planner that succeeded has logged
\* ANALYSIS_START, CONTEXT_GATHERED, PLAN_CREATED in this order and nothing
\* else.
C25_PlannerAuditOrder ==
    \A c \in Calls :
        LET steps == StepsOf(c, "PLANNER") IN
        /\ steps # << >> => steps[1] = "ANALYSIS_START"
        /\ PlannerNotFound(c) => steps = <<"ANALYSIS_START", "ANALYSIS_FAILED">>
        /\ PlannerSucceeded(c) =>
                steps = <<"ANALYSIS_START", "CONTEXT_GATHERED", "PLAN_CREATED">>

\* ------------------------------------- a dispatch that fails before step 6
PreSubmissionKinds == {"IncidentNotFound", "ProviderUnavailable", "MalformedOutput"}
\* The Dispatcher of run c is in its handler for a failure of these kinds.
DispatchFailing(c) ==
    /\ run[c].pc = "dispatcher_failed"
    /\ run[c].error.kind \in PreSubmissionKinds
\* Run c takes the step of that handler.
DispatchHandlerStep(c) == DispatchFailing(c) /\ run'[c].pc # run[c].pc
\* Nothing of run c's dispatch is in the backend, in memory or in the
\* conversation.
NothingDispatched(c) ==
    /\ run[c].posts = << >>
    /\ run[c].wo_created = 0
    /\ \A w \in backend : w.run # c
    /\ run[c].dispatch_result = NoRun
    /\ memory[full_key("DISPATCHER", run[c].incident_id, "dispatch_result")] # c
    /\ \A m \in Range(lists[get_conversation_key(run[c].incident_id)]) :
           ~(m.agent = "DISPATCHER" /\ m.run = c)
DispatchFailedLogged(c) ==
    /\ Len(agent_logs'[c]) = Len(agent_logs[c]) + 1
    /\ Last(agent_logs'[c]).step = "DISPATCH_FAILED"
    /\ Last(agent_logs'[c]).incident_id = run[c].incident_id
    /\ run'[c].stage_error = run[c].error
HandlerFrame(c) ==
    /\ run'[c].pc = "publish_failed"
    /\ memory' = memory
    /\ lists' = lists
    /\ backend' = backend
    /\ run'[c].posts = run[c].posts

\* C26 (as amended): a dispatch that failed on an absent incident, on the
\* provider or on a malformed output has submitted no work order, stored no
\* dispatch result and appended no conversation entry; its handler writes
\* none of these and leaves the stage raising: with DISPATCH_FAILED logged it
\* re-raises the failure, and when the insert of DISPATCH_FAILED fails it
\* raises the audit log's failure with no row added.
C26_DispatchFailure ==
    /\ [](\A c \in Calls : DispatchFailing(c) => NothingDispatched(c))
    /\ [][\A c \in Calls :
            DispatchHandlerStep(c) =>
                /\ HandlerFrame(c)
                /\ IF faults' = faults
                   THEN DispatchFailedLogged(c)
                   ELSE /\ agent_logs' = agent_logs
                        /\ run'[c].stage_error = AuditUnavailable]_vars

\* C26 as stated: the handler of such a dispatch always logs DISPATCH_FAILED
\* and re-raises the failure.
C26_AsStated ==
    [][\A c \in Calls :
         DispatchHandlerStep(c) => (HandlerFrame(c) /\ DispatchFailedLogged(c))]_vars

\* The Dispatcher's output was malformed: DISPATCH_FAILED is the newest row,
\* the run raised the parse failure, nothing was submitted or stored and the
\* plan of the Planner is in memory.
C26_Witness ==
    \E c \in Calls :
        /\ run[c].pc = "raised"
        /\ Last(run[c].started) = "dispatcher"
        /\ run[c].raised.kind = "MalformedOutput"
        /\ Last(agent_logs[c]).step = "DISPATCH_FAILED"
        /\ NothingDispatched(c)
        /\ memory[full_key("PLANNER", run[c].incident_id, "action_plan")] = c

\* ------------------------------------------------------------ no rollback
SuccessRow(stage) ==
    CASE stage = "planner" -> "PLAN_CREATED"
      [] stage = "dispatcher" -> "DISPATCH_COMPLETED"
      [] stage = "analyst" -> "EXPLANATION_CREATED"
\* The stages run c went through before the one it entered last.
EarlierStages(c) == {StageOrder[i] : i \in 1..(Len(run[c].started) - 1)}
\* The write of the stage's artifact reached memory.
Committed(c, stage) ==
    [operation |-> "set_memory", what |-> KeyOf(stage)] \notin run[c].swallowed
\* Run c is on the failure path of its Dispatcher or of its Analyst.
FailingLate(c) ==
    /\ run[c].pc \in FailurePcs
    /\ run[c].started # << >>
    /\ Last(run[c].started) \in {"dispatcher", "analyst"}

\* C27: while a run is on the failure path of its Dispatcher or Analyst, and
\* after it has raised, the artifact of every earlier stage that was written to
\* memory is still there and the stage's success row (PLAN_CREATED,
\* DISPATCH_COMPLETED) is in the audit log; the steps of the failure path
\* leave memory as it is and remove no audit row.
C27_NoRollback ==
    /\ [](\A c \in Calls :
            FailingLate(c) =>
                \A stage \in EarlierStages(c) :
                    /\ ArtifactOf(run[c], stage) = c
                    /\ Committed(c, stage) => StoredBy(c, stage)
                    /\ \E e \in Range(agent_logs[c]) :
                          /\ e.step = SuccessRow(stage)
                          /\ e.incident_id = run[c].incident_id)
    /\ [][\A c \in Calls :
            (FailingLate(c) /\ run'[c] # run[c]) =>
                /\ memory' = memory
                /\ IsPrefix(agent_logs[c], agent_logs'[c])
                /\ run'[c].pc \in FailurePcs]_vars

\* The Analyst failed and the run raised: the plan and the dispatch result are
\* in memory, PLAN_CREATED and DISPATCH_COMPLETED in the audit log, and no
\* explanation was stored.
C27_Witness ==
    \E c \in Calls :
        /\ run[c].pc = "raised"
        /\ Last(run[c].started) = "analyst"
        /\ StoredBy(c, "planner")
        /\ StoredBy(c, "dispatcher")
        /\ ~StoredBy(c, "analyst")
        /\ {"PLAN_CREATED", "DISPATCH_COMPLETED", "EXPLANATION_FAILED"}
              \subseteq {e.step : e \in Range(agent_logs[c])}

\* -------------------------------------------------------------- termination
TerminalNames == {"workflow_completed", "workflow_failed"}
TerminalEvents(c) == SelectSeq(EventNames(c), LAMBDA e : e \in TerminalNames)
TerminalOf(c) ==
    IF run[c].pc = "returned" THEN "workflow_completed" ELSE "workflow_failed"

\* C28 (as amended): every call that was made returns or raises; a run that
\* has not ended has published no terminal event, and a run that ended without
\* being short-circuited has published the one terminal event of its ending,
\* workflow_completed if it returned and workflow_failed if it raised, unless
\* the publish of that event failed, and then it has published none.
C28_Terminates ==
    /\ \A c \in Calls : (run[c].pc # "idle") ~> Finished(c)
    /\ [](\A c \in Calls :
            /\ ~Finished(c) => TerminalEvents(c) = << >>
            /\ (Finished(c) /\ ~ShortCircuited(c)) =>
                  TerminalEvents(c) =
                      IF TerminalOf(c) \in Unpublished(c) THEN << >>
                      ELSE <<TerminalOf(c)>>)

\* C28 as stated: every run that ended without being short-circuited has
\* published exactly one terminal event.
C28_AsStated ==
    \A c \in Calls :
        (Finished(c) /\ ~ShortCircuited(c)) => Len(TerminalEvents(c)) = 1

\* The Analyst's provider timed out at every attempt: the run raised after
\* the retries were exhausted and workflow_failed is its one terminal event.
C28_Witness ==
    \E c \in Calls :
        /\ run[c].pc = "raised"
        /\ run[c].started = StageOrder
        /\ run[c].raised.kind = "ProviderUnavailable"
        /\ run[c].llm_attempts = agent_max_retries
        /\ TerminalEvents(c) = <<"workflow_failed">>

\* ---------------------------------------------------------- forced re-runs
\* The Planner of run c has just returned its plan to the Coordinator.
PlannerReturned(c) == run[c].pc = "publish_plan_created"

\* C29: a forced call is never short-circuited, a forced call that completed
\* went through Planner, Dispatcher and Analyst whatever plan was in memory,
\* and when the Planner of a forced call has returned, the plan key of the
\* incident holds the plan this Planner made and no other.
C29_ForcedSupersedes ==
    \A c \in Calls :
        run[c].force_reprocess =>
            /\ ~ShortCircuited(c)
            /\ Completed(c) => run[c].started = StageOrder
            /\ PlannerReturned(c) =>
                  /\ run[c].action_plan = c
                  /\ memory[full_key("PLANNER", run[c].incident_id, "action_plan")]
                        = run[c].action_plan

\* ------------------------------------------------------ the hotspot pattern
GeographicPatterns(report) ==
    SelectSeq(report.patterns, LAMBDA x : x.type = "geographic_hotspot")
\* The number of rows of the zone that has the most rows.
TopZoneCount(found) ==
    CHOOSE m \in {found.zone_counts[z] : z \in Zones} :
        \A z \in Zones : found.zone_counts[z] <= m

\* C30: for every non-empty incident set, the report of analyze_patterns has
\* the geographic pattern, once, if and only if the rows of the zone with the
\* most rows are strictly more than 40% of all the rows of the set, those
\* without a zone included; the zone the pattern names is a zone with the most
\* rows and the count it carries is the number of that zone's rows.
C30_GeographicThreshold ==
    Reported =>
        LET geo == GeographicPatterns(request.result)
            top == TopZoneCount(request.found)
        IN /\ Len(geo) <= 1
           /\ geo # << >> <=> 100 * top > 40 * request.found.total
           /\ geo # << >> =>
                /\ request.found.zone_counts[geo[1].zone_id] = top
                /\ geo[1].count = top

\* A report for ten incidents, four of zone z1, three of zone z2 and three
\* without a zone, was returned without the geographic pattern: the four are
\* exactly 40% of the ten, though more than half of the seven that have a zone.
C30_Witness ==
    /\ request.pc = "patterns_returned"
    /\ request.found.total = 10
    /\ request.found.zone_counts["z1"] = 4
    /\ request.found.zone_counts["z2"] = 3
    /\ GeographicPatterns(request.result) = << >>
    /\ Len(agent_logs[NoRun]) = 1

\* ---------------------------------------------------- the empty incident set
\* The analysis returns straight from the query, without the step that logs.
EarlyReturn ==
    request.pc = "patterns_fetch" /\ request'.pc = "patterns_returned"

\* C31: an analysis whose query returned no incident returns the empty pattern
\* list, the empty recommendation list and the insufficient-data message, and
\* it returns from the query at once: that step inserts no audit row and
\* touches no run, so no provider is called; an analysis that goes on to build
\* and log a report has found at least one incident.
C31_EmptyInput ==
    /\ [](/\ ((request.pc = "patterns_returned" /\ request.found.total = 0)
                 => request.result = InsufficientData)
           /\ (request.pc = "patterns_log" => request.found.total > 0))
    /\ [][EarlyReturn =>
            /\ request'.found.total = 0
            /\ request'.result = InsufficientData
            /\ agent_logs' = agent_logs
            /\ run' = run]_vars

\* An analysis of zone z1 found no incident and returned the insufficient-data
\* report with the audit log empty.
C31_Witness ==
    /\ request.pc = "patterns_returned"
    /\ request.zone_id = "z1"
    /\ request.found.total = 0
    /\ request.result.patterns = << >>
    /\ request.result.recommendations = << >>
    /\ request.result.insights = <<"insufficient_data">>
    /\ agent_logs[NoRun] = << >>

\* --------------------------------------------------- the report's make-up
PatternOrder ==
    <<"incident_frequency", "high_severity_trend", "geographic_hotspot">>
TypesInOrder(report) == [i \in 1..Len(report.patterns) |-> report.patterns[i].type]
Triggered(report, type) == IF type \in PatternTypes(report) THEN 1 ELSE 0

\* C32: the pattern list of a report for a non-empty incident set is the
\* frequency pattern, then the severity pattern if there is one, then the
\* geographic pattern if there is one, each once; the recommendation list is
\* the frequency recommendation, then the two severity recommendations if the
\* severity pattern is there, then the two geographic ones if the geographic
\* pattern is there, so it has 1 + 2 * [severity] + 2 * [geographic] entries.
C32_ReportComposition ==
    Reported =>
        LET report == request.result
            severity == Triggered(report, "high_severity_trend")
            geographic == Triggered(report, "geographic_hotspot")
        IN /\ TypesInOrder(report) =
                SelectSeq(PatternOrder, LAMBDA t : t \in PatternTypes(report))
           /\ TypesInOrder(report)[1] = "incident_frequency"
           /\ report.recommendations =
                <<"preventive_maintenance">>
                \o (IF severity = 1
                    THEN <<"increase_monitoring", "review_protocols">>
                    ELSE << >>)
                \o (IF geographic = 1
                    THEN <<"assess_infrastructure", "deploy_sensors">>
                    ELSE << >>)
           /\ Len(report.recommendations) = 1 + 2 * severity + 2 * geographic

\* A report with the three patterns and five recommendations was returned.
C32_Witness ==
    /\ request.pc = "patterns_returned"
    /\ request.found.total > 0
    /\ TypesInOrder(request.result) = PatternOrder
    /\ Len(request.result.recommendations) = 5

\* ------------------------------------------- what already_processed means
\* Run d is an earlier run for the incident of run c whose Planner wrote the
\* plan that the check of run c read.
WrotePlanReadBy(d, c) ==
    /\ run[d].incident_id = run[c].incident_id
    /\ Finished(d)
    /\ "planner" \in Range(run[d].started)
    /\ run[d].action_plan = d
    /\ Committed(d, "planner")
    /\ run[c].existing_plan = run[d].action_plan

\* C33 (as amended): an unforced call returns already_processed only if its
\* check read a plan that the Planner of an earlier run for the same incident
\* had written to memory; that run need not have completed.
C33_AlreadyProcessedOrigin ==
    \A c \in Calls :
        ShortCircuited(c) =>
            /\ ~run[c].force_reprocess
            /\ \E d \in Calls \ {c} : WrotePlanReadBy(d, c)

\* C33 as stated: a call returns already_processed only if an earlier run for
\* the incident completed.
C33_AsStated ==
    \A c \in Calls :
        ShortCircuited(c) =>
            \E d \in Calls \ {c} :
                run[d].incident_id = run[c].incident_id /\ Completed(d)

\* The first run failed in its Dispatcher on the provider and raised; the
\* second, unforced, read the plan the first had stored and returned
\* already_processed.
C33_Witness ==
    /\ run[1].pc = "raised"
    /\ Last(run[1].started) = "dispatcher"
    /\ run[1].raised.kind = "ProviderUnavailable"
    /\ ShortCircuited(2)
    /\ WrotePlanReadBy(1, 2)

\* ------------------------------------------------- the status after re-runs
\* Two invocations one after the other, forced or not, every store working,
\* and one call of get_incident_status at any time before, between, during or
\* after them.
InitRerun ==
    /\ Stores
    /\ unreliable = {}
    /\ provider = {answers_at_once, always_times_out}
    /\ retry = NoRetry
    /\ request = NoRequest

NextRerun ==
    \/ call_in_sequence
    \/ \E c \in Calls : Step(c)
    \/ \E i \in IncidentIds : get_incident_status(i)
    \/ status_action_plan
    \/ status_dispatch_result
    \/ status_explanation
    \/ status_conversation

SpecRerun == InitRerun /\ [][NextRerun]_vars

\* The artifact the status read for the stage, or NoRun.
ReadFor(stage) == request[KeyOf(stage)]
\* The artifact read for the stage was made by that stage of a run for the
\* incident asked about.
ReadFromARun(stage) ==
    \E c \in Calls :
        /\ ReadFor(stage) = c
        /\ run[c].incident_id = request.incident_id
        /\ ArtifactOf(run[c], stage) = c

\* C34 (as amended): get_incident_status reports completed=true exactly when
\* each of its three reads found an artifact, and each artifact it found was
\* made by the matching stage of some run for the incident; the three need
\* not come from one run and no run need have completed.
C34_CompletedMeansPresent ==
    StatusReturned =>
        /\ request.result.completed
              <=> \A stage \in Range(StageOrder) : ReadFor(stage) # NoRun
        /\ \A stage \in Range(StageOrder) :
              ReadFor(stage) # NoRun => ReadFromARun(stage)

\* C34 as stated: when completed=true is reported, the three artifacts in
\* memory are those of one run, which has published workflow_completed.
C34_AsStated ==
    (StatusReturned /\ request.result.completed) =>
        \E c \in Calls :
            /\ run[c].incident_id = request.incident_id
            /\ \A stage \in Range(StageOrder) : StoredBy(c, stage)
            /\ "workflow_completed" \in Range(EventNames(c))

\* The first run completed; the second, forced, stored its plan and failed in
\* its Dispatcher; the status then reported completed=true from the plan of
\* the second run and the dispatch result and explanation of the first.
C34_Witness ==
    /\ StatusReturned
    /\ request.result.completed
    /\ Completed(1)
    /\ run[2].pc = "raised"
    /\ run[2].force_reprocess
    /\ request.action_plan = 2
    /\ request.dispatch_result = 1
    /\ request.explanation = 1

\* --------------------------------------- work orders of a failed dispatch
\* The dispatch of run c has raised.
DispatchRaised(c) ==
    /\ StageRaised(c)
    /\ run[c].started # << >>
    /\ Last(run[c].started) = "dispatcher"
OrdersOf(c) == {b \in backend : b.run = c}

\* C35 (as amended): a dispatch that raised has submitted work orders only if
\* it failed on the audit log after its submission loop was over: then every
\* work order of its validated DispatchResult was submitted and the created
\* ones stay at the backend; a dispatch that raised on an absent incident, on
\* the provider or on a malformed output has submitted none.
C35_OrdersOfFailedDispatch ==
    \A c \in Calls :
        DispatchRaised(c) =>
            /\ OrdersOf(c) = {} <=> CreatedPosts(c) = << >>
            /\ run[c].posts # << >> =>
                  /\ run[c].stage_error = AuditUnavailable
                  /\ run[c].dispatch_result = c
                  /\ Len(run[c].posts) = run[c].work_orders
            /\ run[c].stage_error.kind \in PreSubmissionKinds =>
                  (run[c].posts = << >> /\ OrdersOf(c) = {})

\* C35 as stated: a dispatch that raised has submitted no work order.
C35_AsStated ==
    \A c \in Calls :
        DispatchRaised(c) => (run[c].posts = << >> /\ OrdersOf(c) = {})

\* Two work orders were created at the backend, then the insert of
\* DISPATCH_COMPLETED failed and the dispatch raised.
C35_Witness ==
    \E c \in Calls :
        /\ run[c].pc = "raised"
        /\ DispatchRaised(c)
        /\ run[c].raised = AuditUnavailable
        /\ Len(CreatedPosts(c)) = 2
        /\ Cardinality(OrdersOf(c)) = 2

\* ------------------------------------------- artifacts and their audit rows
StagePcs(stage) ==
    CASE stage = "planner" ->
            {"planner_log_start", "planner_gather", "planner_log_context",
             "planner_fetch", "planner_llm", "planner_store",
             "planner_log_created", "planner_conversation", "planner_failed"}
      [] stage = "dispatcher" ->
            {"dispatcher_log_start", "dispatcher_fetch", "dispatcher_log_units",
             "dispatcher_llm", "dispatcher_work_orders", "dispatcher_store",
             "dispatcher_log_completed", "dispatcher_conversation",
             "dispatcher_failed"}
      [] stage = "analyst" ->
            {"analyst_log_start", "analyst_fetch", "analyst_llm", "analyst_store",
             "analyst_log_created", "analyst_conversation", "analyst_failed"}
\* The stage's call in run c has returned or raised.
StageFinished(c, stage) ==
    /\ stage \in Range(run[c].started)
    /\ run[c].pc \notin StagePcs(stage)
SuccessLogged(c, stage) ==
    \E e \in Range(agent_logs[c]) :
        /\ e.step = SuccessRow(stage)
        /\ e.agent_type = AgentOf(stage)
        /\ e.incident_id = run[c].incident_id
\* The stage of run c raised the failure of an audit insert.
RaisedOnAudit(c, stage) ==
    /\ StageRaised(c)
    /\ Last(run[c].started) = stage
    /\ run[c].stage_error = AuditUnavailable

\* C36 (as amended): when a stage's call has finished and the artifact it
\* wrote is in memory, the stage's success row (PLAN_CREATED,
\* DISPATCH_COMPLETED, EXPLANATION_CREATED) written by the call for the incident
\* is in the audit log, unless the stage raised the failure of an audit insert:
\* the artifact is written before the row, and stays when the insert fails.
C36_ArtifactsAudited ==
    \A c \in Calls : \A stage \in Range(StageOrder) :
        (StageFinished(c, stage) /\ StoredBy(c, stage)) =>
            (SuccessLogged(c, stage) \/ RaisedOnAudit(c, stage))

\* C36 as stated: the artifact a finished stage wrote to memory always has its
\* success row.
C36_AsStated ==
    \A c \in Calls : \A stage \in Range(StageOrder) :
        (StageFinished(c, stage) /\ StoredBy(c, stage)) => SuccessLogged(c, stage)

\* The Analyst stored its explanation, the insert of EXPLANATION_CREATED
\* failed and the run raised: the explanation is in memory without its row,
\* the plan and the dispatch result with theirs.
C36_Witness ==
    \E c \in Calls :
        /\ run[c].pc = "raised"
        /\ RaisedOnAudit(c, "analyst")
        /\ StoredBy(c, "analyst")
        /\ ~SuccessLogged(c, "analyst")
        /\ StoredBy(c, "planner") /\ SuccessLogged(c, "planner")
        /\ StoredBy(c, "dispatcher") /\ SuccessLogged(c, "dispatcher")
\* ------------------------------------------------- concurrent conversations
\* The stages of concurrently executing process_incident calls add to the
\* conversation of one incident: each caller is at its own place in
\* append_to_list, between the rpush and the ltrim or outside them, and
\* get_conversation_history may run between any two of their steps.

\* Caller c calls add_to_conversation(incident_id, message).
concurrent_add_to_conversation(c, incident_id) ==
    /\ request.pc[c] \in {"none", "append_returned"}
    /\ request.calls < MaxAppends
    /\ request' = [request EXCEPT !.pc[c] = "append_rpush",
                                  !.key[c] = get_conversation_key(incident_id),
                                  !.calls = @ + 1,
                                  !.message[c] = request.next,
                                  !.next = @ + 1]
    /\ UNCHANGED <<run, memory, lists, agent_logs, incidents, backend, unreliable,
                   provider, faults, expiries, retry>>

\* Caller c: await self.client.rpush(key, serialized); an exception ends the
\* call, which returns False.
concurrent_rpush(c) ==
    /\ request.pc[c] = "append_rpush"
    /\ \E ok \in BOOLEAN :
        /\ Outcome("rpush", ok)
        /\ IF ok
           THEN /\ lists' = [lists EXCEPT
                               ![request.key[c]] = rpush(@, request.message[c])]
                /\ request' = [request EXCEPT !.pc[c] = "append_ltrim"]
           ELSE /\ lists' = lists
                /\ request' = [request EXCEPT !.pc[c] = "append_returned"]
    /\ UNCHANGED <<run, memory, agent_logs, incidents, backend, unreliable,
                   provider, expiries, retry>>

\* Caller c: await self.client.ltrim(key, -max_length, -1); return True, or
\* False on an exception.
concurrent_ltrim(c) ==
    /\ request.pc[c] = "append_ltrim"
    /\ \E ok \in BOOLEAN :
        /\ Outcome("ltrim", ok)
        /\ lists' = IF ok
                    THEN [lists EXCEPT ![request.key[c]] = ltrim(@, max_length)]
                    ELSE lists
        /\ request' = [request EXCEPT !.pc[c] = "append_returned"]
    /\ UNCHANGED <<run, memory, agent_logs, incidents, backend, unreliable,
                   provider, expiries, retry>>

\* A caller invokes get_conversation_history(incident_id) while the appends
\* are wherever they are: the lrange is one command.
concurrent_get_conversation_history(incident_id) ==
    /\ \E ok \in BOOLEAN :
        /\ Outcome("get_list", ok)
        /\ request' = [request EXCEPT
                         !.history = get_list(lists,
                                              get_conversation_key(incident_id),
                                              ok)]
    /\ UNCHANGED <<run, memory, lists, agent_logs, incidents, backend, unreliable,
                   provider, expiries, retry>>

\* The conversation of the first incident holds the messages of `n` earlier
\* calls, with n none, one less than the maximum length, or the maximum
\* length; no command to the key-value store fails.
InitAppenders ==
    /\ run = [c \in Calls |-> IdleRun]
    /\ memory = [k \in AllFullKeys |-> NoRun]
    /\ \E n \in {0, max_length - 1, max_length} :
        /\ lists = [k \in ConversationKeys |->
                      IF k = get_conversation_key("i1") THEN FirstMessages(n)
                      ELSE << >>]
        /\ request = [pc |-> [c \in Calls |-> "none"],
                      key |-> [c \in Calls |-> None],
                      message |-> [c \in Calls |-> 0],
                      calls |-> 0, next |-> n + 1, history |-> << >>]
    /\ agent_logs = [c \in Writers |-> << >>]
    /\ incidents = StoredIncidents
    /\ backend = {}
    /\ faults = 0
    /\ expiries = 0
    /\ unreliable = {}
    /\ provider = {answers_at_once}
    /\ retry = NoRetry

NextAppenders ==
    \/ \E c \in Calls, i \in IncidentIds : concurrent_add_to_conversation(c, i)
    \/ \E c \in Calls : concurrent_rpush(c)
    \/ \E c \in Calls : concurrent_ltrim(c)
    \/ \E i \in IncidentIds : concurrent_get_conversation_history(i)

SpecAppenders == InitAppenders /\ [][NextAppenders]_vars

\* C37: in every state, the states between the rpush and the ltrim of
\* concurrently executing add_to_conversation calls included, every stored
\* conversation has at most max_length messages, and no
\* get_conversation_history call returns more than max_length messages.
C37_BoundUnderConcurrency ==
    /\ \A k \in ConversationKeys : Len(lists[k]) <= max_length
    /\ Len(request.history) <= max_length


\* The dispatched events run c has published.
DispatchedEvents(c) ==
    SelectSeq(run[c].published, LAMBDA e : e.event = "dispatched")

\* C38: in every run, the work_orders_count of the dispatched event equals the
\* number of work orders created at the backend, which is the
\* work_orders_created of the run's DISPATCH_COMPLETED row.
C38_PublishedCountIsCreated ==
    \A c \in Calls :
        \A e \in Range(DispatchedEvents(c)) :
            /\ e.work_orders_count = Len(CreatedPosts(c))
            /\ \A row \in Range(CompletedEntries(c)) :
                 e.work_orders_count = row.work_orders_created


\* ------------------------------------------- a failed read at the check
\* The read of the plan at the idempotency check of run c failed.
CheckReadFailed(c) ==
    [operation |-> "get_memory", what |-> "action_plan"] \in run[c].swallowed

\* Run c is past its publish of workflow_started.
PastStarted(c) == run[c].pc \notin {"idle", "check", "publish_started"}

\* C39: when the read of the plan fails at the idempotency check of an
\* unforced call, the check neither raises nor returns already_processed: it
\* takes the plan as absent whatever memory holds, leaves memory alone and
\* goes on to the publish of workflow_started; the call then sends
\* workflow_started and enters the Planner, and if it fails it fails later, in
\* a stage.
C39_ReadFailureStartsRun ==
    /\ [][\A c \in Calls :
            (CheckStep(c) /\ faults' # faults)
                => /\ run'[c].pc = "publish_started"
                   /\ run'[c].existing_plan = NoRun
                   /\ run'[c].error = NoError
                   /\ CheckReadFailed(c)'
                   /\ memory' = memory]_vars
    /\ [](\A c \in Calls :
            CheckReadFailed(c)
                => /\ ~run[c].force_reprocess
                   /\ ~ShortCircuited(c)
                   /\ PastStarted(c)
                        => \/ "workflow_started" \in Range(EventNames(c))
                           \/ "workflow_started" \in Unpublished(c)
                   /\ (PastStarted(c) /\ run[c].pc # "planner_log_start")
                        => run[c].started # << >> /\ run[c].started[1] = "planner")

\* The first call completed and its plan is in memory; the read of the second
\* call's check failed, and the second call has published workflow_started and
\* logged ANALYSIS_START for the same incident.
C39_Witness ==
    /\ Completed(1)
    /\ run[1].incident_id = run[2].incident_id
    /\ memory[full_key("PLANNER", run[2].incident_id, "action_plan")] = 1
    /\ CheckReadFailed(2)
    /\ RanPlanner(2)


\* -------------------------------------------------- isolation of incidents
\* Run c, called earlier, takes a step.
RunStep(c) == run[c].pc # "idle" /\ run'[c] # run[c]

\* The key of the artifact of the stage run c is in.
OwnKey(c) ==
    full_key(AgentOf(Last(run[c].started)), run[c].incident_id,
             KeyOf(Last(run[c].started)))

\* The keys under which the stages store their artifacts.
StageKeys ==
    {full_key(AgentOf(stage), i, KeyOf(stage)) :
        stage \in Range(StageOrder), i \in IncidentIds}

\* C40: a step of a process_incident run for an incident, interleaved in any
\* way with a run for another incident, changes no memory entry but the
\* artifact key of its own stage and incident, changes no conversation but its
\* incident's and only by adding its message at the end, and inserts audit
\* rows only with its incident's id; the artifact keys of the three stages and
\* of the incidents are all different, so every stored artifact and every
\* conversation message lies under the key of the incident of the run that
\* wrote it.
C40_IncidentIsolation ==
    /\ [][\A c \in Calls :
            RunStep(c)
                => /\ \A k \in AllFullKeys :
                        memory'[k] # memory[k]
                            => /\ run[c].started # << >>
                               /\ k = OwnKey(c)
                               /\ memory'[k] = c
                   /\ \A k \in ConversationKeys :
                        lists'[k] # lists[k]
                            => /\ k = get_conversation_key(run[c].incident_id)
                               /\ Last(lists'[k]).run = c
                               /\ Len(lists[k]) < max_length
                                    => IsPrefix(lists[k], lists'[k])
                   /\ \A w \in Writers :
                        agent_logs'[w] # agent_logs[w]
                            => /\ w = c
                               /\ Last(agent_logs'[w]).incident_id
                                    = run[c].incident_id]_vars
    /\ [](/\ Cardinality(StageKeys) = 3 * Cardinality(IncidentIds)
          /\ \A k \in AllFullKeys :
                memory[k] # NoRun
                    => /\ k \in StageKeys
                       /\ k[3] = run[memory[k]].incident_id
          /\ \A i \in IncidentIds :
                \A m \in Range(lists[get_conversation_key(i)]) :
                    run[m.run].incident_id = i
          /\ \A c \in Calls :
                \A e \in Range(agent_logs[c]) :
                    e.incident_id = run[c].incident_id)

\* Two runs for different incidents are under way at once, each has stored its
\* plan and added to its conversation, and the first has also stored its
\* dispatch result beside its plan.
C40_Witness ==
    /\ InProgress(1) /\ InProgress(2)
    /\ run[1].incident_id # run[2].incident_id
    /\ StoredBy(1, "planner") /\ StoredBy(1, "dispatcher")
    /\ StoredBy(2, "planner")
    /\ lists[get_conversation_key(run[1].incident_id)] # << >>
    /\ lists[get_conversation_key(run[2].incident_id)] # << >>


====
